---- MODULE Spec2Model ----
(***************************************************************************)
(* Model of the analytics backend of Network_Toplogy_Idetificaiton:        *)
(*   - the in-memory result store (backend/app/services/storage.py),       *)
(*   - the single-stage services (data, similarity, topology, anomaly,     *)
(*     propagation, copilot, visualization),                               *)
(*   - the batch pipeline (backend/app/services/batch_service.py),         *)
(*   - the two similarity computations (Pearson in similarity_service.py,  *)
(*     cosine in Congestion_detection/similarity_matrix.py),               *)
(*   - the clustering of ML/step3_propagation_analysis.py and the anomaly  *)
(*     detector of ML/step2_detect_anomalies.py,                           *)
(*   - propagation analysis (backend/app/services/propagation_service.py), *)
(*   - the rate limiter (backend/app/core/security.py).                    *)
(*                                                                         *)
(* Ids: generate_id(prefix) returns prefix + 8 random hex digits.  The     *)
(* model assumes that generated ids do not collide: an id is drawn from a  *)
(* range reserved for the caller (a pipeline run, or 0 for a direct call), *)
(* and is never a key of the target dictionary yet.  Any collision-free    *)
(* draw is the same up to renaming.                                        *)
(***************************************************************************)
EXTENDS Integers, Sequences, FiniteSets, TLC

VARIABLES
    storage,   \* the InMemoryStorage singleton: one dictionary per entity kind
    task,      \* per batch id: the _run_pipeline coroutine (position and locals)
    ret,       \* the last operation called and what its caller got back
    table,     \* similarity computation: the records, per slot and cell (Absent: no record)
    simOut,    \* similarity computation: the produced matrix with its cell id list
    kmeans_labels,  \* what KMeans(random_state=42) returns for the stored matrix, once called
    tp,             \* anomaly detector: per cell, throughput_slot by slot (sorted by cell, slot)
    anomaly_rows,   \* anomaly detector: the list of per-cell row lists produced so far
    limiter         \* the RateLimiter singleton, the threads inside check_rate_limit, the clock

vars == <<storage, task, ret, table, simOut, kmeans_labels, tp, anomaly_rows, limiter>>

----------------------------------------------------------------------------
(* Bounds *)

MaxBatches == 2      \* run_full_analysis calls
MaxUploads == 1      \* upload_data calls that store
MaxDirect  == 1      \* direct single-stage calls that store a result
MaxRecords == 11     \* longest record list handed to upload_data
NumCells   == 2      \* cells in a similarity computation
NumSlots   == 3      \* slots in a similarity computation
MaxVal     == 1      \* largest signal value (0/1: loss or congestion events)

----------------------------------------------------------------------------
(* Ids and small helpers *)

None == <<"none", 0, 0>>
NoError == "None"

\* storage.py generate_id: a key of the given prefix not yet in dict, drawn by who
generate_id(prefix, who, dict) ==
    <<prefix, who, 1 + Cardinality({k \in DOMAIN dict : k[2] = who})>>

Direct == 0

UploadIdSpace == {<<"upl", Direct, n>> : n \in 1..(MaxUploads + 1)}
BatchIdSpace == {<<"batch", Direct, n>> : n \in 1..MaxBatches}

Put(dict, k, v) == [x \in (DOMAIN dict) \cup {k} |-> IF x = k THEN v ELSE dict[x]]

EmptyDict == [x \in {} |-> None]

----------------------------------------------------------------------------
(* InMemoryStorage *)

StorageInit ==
    [uploads |-> EmptyDict, similarities |-> EmptyDict, topologies |-> EmptyDict,
     anomalies |-> EmptyDict, propagations |-> EmptyDict, reports |-> EmptyDict,
     visualizations |-> EmptyDict, batches |-> EmptyDict,
     active_jobs |-> 0, storage_items |-> 0]

store_upload(st, id, data) ==
    [st EXCEPT !.uploads = Put(@, id, data), !.storage_items = @ + 1]

store_similarity(st, id, data) ==
    [st EXCEPT !.similarities = Put(@, id, data), !.storage_items = @ + 1]

store_topology(st, id, data) ==
    [st EXCEPT !.topologies = Put(@, id, data), !.storage_items = @ + 1]

store_anomaly(st, id, data) ==
    [st EXCEPT !.anomalies = Put(@, id, data), !.storage_items = @ + 1]

store_propagation(st, id, data) ==
    [st EXCEPT !.propagations = Put(@, id, data), !.storage_items = @ + 1]

store_report(st, id, data) ==
    [st EXCEPT !.reports = Put(@, id, data), !.storage_items = @ + 1]

store_visualization(st, id, data) ==
    [st EXCEPT !.visualizations = Put(@, id, data), !.storage_items = @ + 1]

store_batch_nocount(st, id, data) ==
    [st EXCEPT !.batches = Put(@, id, data)]

store_batch(st, id, data) ==
    [st EXCEPT !.batches = Put(@, id, data), !.active_jobs = @ + 1]

\* data is a record holding the keys to overwrite (dict.update)
Merge(old, data) ==
    [k \in (DOMAIN old) \cup (DOMAIN data) |-> IF k \in DOMAIN data THEN data[k] ELSE old[k]]

update_batch_drop(st, id, data) ==
    IF id \in DOMAIN st.batches
    THEN [st EXCEPT !.batches[id] = Merge(@, data),
                    !.similarities = IF "status" \in DOMAIN data /\ data.status = "failed"
                                     THEN EmptyDict ELSE @,
                    !.active_jobs =
                        IF "status" \in DOMAIN data /\ data.status \in {"completed", "failed"}
                        THEN (IF @ - 1 > 0 THEN @ - 1 ELSE 0) ELSE @]
    ELSE st

update_batch(st, id, data) ==
    IF id \in DOMAIN st.batches
    THEN [st EXCEPT !.batches[id] = Merge(@, data),
                    !.active_jobs =
                        IF "status" \in DOMAIN data /\ data.status \in {"completed", "failed"}
                        THEN (IF @ - 1 > 0 THEN @ - 1 ELSE 0) ELSE @]
    ELSE st

\* `if not x: raise ValueError(... not found ...)` after a storage.get_*
Found(dict, id) == id \in DOMAIN dict

----------------------------------------------------------------------------
(* Single-stage services.  Each operator returns what the call did:        *)
(* ok (returned) or not (raised err), the storage afterwards, the new id.  *)
(* Timestamps and the numeric payloads are left out of the stored records  *)
(* here; the numeric payloads are modelled further below.                  *)

Raised(st, msg) == [ok |-> FALSE, st |-> st, id |-> None, err |-> msg]
Returned(st, id) == [ok |-> TRUE, st |-> st, id |-> id, err |-> NoError]

compute_similarity(st, who, upload_id, method) ==
    IF ~Found(st.uploads, upload_id) THEN Raised(st, "Upload not found")
    ELSE LET id == generate_id("sim", who, st.similarities)
         IN Returned(store_similarity(st, id,
                [similarity_id |-> id, upload_id |-> upload_id, method |-> method,
                 download_url |-> FALSE]), id)

infer_topology(st, who, similarity_id, clustering_method) ==
    IF ~Found(st.similarities, similarity_id) THEN Raised(st, "Similarity matrix not found")
    ELSE LET id == generate_id("topo", who, st.topologies)
         IN Returned(store_topology(st, id,
                [topology_id |-> id, similarity_id |-> similarity_id,
                 clustering_method |-> clustering_method]), id)

detect_anomalies_partial(st, who, topology_id, similarity_id) ==
    IF ~Found(st.topologies, topology_id) THEN Raised(st, "Topology not found")
    ELSE LET id == generate_id("anom", who, st.anomalies)
         IN Returned(store_anomaly(st, id,
                [analysis_id |-> id, topology_id |-> topology_id,
                 similarity_id |-> similarity_id]), id)

detect_anomalies(st, who, topology_id, similarity_id) ==
    IF ~Found(st.topologies, topology_id) THEN Raised(st, "Topology not found")
    ELSE IF ~Found(st.similarities, similarity_id) THEN Raised(st, "Similarity matrix not found")
    ELSE LET id == generate_id("anom", who, st.anomalies)
         IN Returned(store_anomaly(st, id,
                [analysis_id |-> id, topology_id |-> topology_id,
                 similarity_id |-> similarity_id]), id)

analyze_propagation(st, who, topology_id, upload_id) ==
    IF ~Found(st.topologies, topology_id) THEN Raised(st, "Topology not found")
    ELSE IF ~Found(st.uploads, upload_id) THEN Raised(st, "Upload not found")
    ELSE LET id == generate_id("prop", who, st.propagations)
         IN Returned(store_propagation(st, id,
                [propagation_id |-> id, topology_id |-> topology_id,
                 upload_id |-> upload_id]), id)

\* An unavailable LLM is caught inside and replaced by the template report.
generate_insights(st, who, topology_id, anomaly_id, propagation_id) ==
    IF ~Found(st.topologies, topology_id) THEN Raised(st, "Topology not found")
    ELSE LET id == generate_id("rpt", who, st.reports)
         IN Returned(store_report(st, id,
                [report_id |-> id, topology_id |-> topology_id,
                 anomaly_id |-> anomaly_id, propagation_id |-> propagation_id]), id)

generate_heatmap(st, who, similarity_id) ==
    IF ~Found(st.similarities, similarity_id) THEN Raised(st, "Similarity matrix not found")
    ELSE LET id == generate_id("viz", who, st.visualizations)
         IN Returned(store_visualization(st, id,
                [visualization_id |-> id, type |-> "heatmap", source |-> similarity_id]), id)

generate_topology_graph(st, who, topology_id) ==
    IF ~Found(st.topologies, topology_id) THEN Raised(st, "Topology not found")
    ELSE LET id == generate_id("viz", who, st.visualizations)
         IN Returned(store_visualization(st, id,
                [visualization_id |-> id, type |-> "topology_graph", source |-> topology_id]), id)

generate_propagation_flow(st, who, propagation_id) ==
    IF ~Found(st.propagations, propagation_id) THEN Raised(st, "Propagation not found")
    ELSE LET id == generate_id("viz", who, st.visualizations)
         IN Returned(store_visualization(st, id,
                [visualization_id |-> id, type |-> "propagation_flow", source |-> propagation_id]), id)

\* SimilarityService.get_similarity: the dictionary returned by the storage is
\* the stored one, and the assignment of download_url writes into it.
get_similarity(st, similarity_id) ==
    IF Found(st.similarities, similarity_id)
    THEN [st |-> [st EXCEPT !.similarities[similarity_id].download_url = TRUE],
          value |-> [st.similarities[similarity_id] EXCEPT !.download_url = TRUE]]
    ELSE [st |-> st, value |-> None]

get_topology(st, topology_id) ==
    IF Found(st.topologies, topology_id) THEN st.topologies[topology_id] ELSE None

get_anomaly(st, analysis_id) ==
    IF Found(st.anomalies, analysis_id) THEN st.anomalies[analysis_id] ELSE None

get_propagation(st, propagation_id) ==
    IF Found(st.propagations, propagation_id) THEN st.propagations[propagation_id] ELSE None

----------------------------------------------------------------------------
(* DataService *)

ValidateLimit == 10

AllFields == {"slot_id", "cell_id", "loss_event", "throughput_slot"}

required_fields(data_type) ==
    {"slot_id", "cell_id"} \cup
        (IF data_type = "loss_events" THEN {"loss_event"} ELSE {"throughput_slot"})

Min(a, b) == IF a < b THEN a ELSE b

\* A record is modelled by the set of keys it has.
\* _generate_sample_data builds 24000 complete records; two stand for them.
generate_sample_data(data_type) == [i \in 1..2 |-> required_fields(data_type)]

validate_data_first_only(data_type, records) ==
    IF Len(records) = 0 THEN "No records provided"
    ELSE IF \E i \in 1..Min(1, Len(records)) :
                ~(required_fields(data_type) \subseteq records[i])
         THEN "Missing required field"
         ELSE NoError

\* _validate_data: the message of the ValueError raised, NoError when none
validate_data(data_type, records) ==
    IF Len(records) = 0 THEN "No records provided"
    ELSE IF \E i \in 1..Min(ValidateLimit, Len(records)) :
                ~(required_fields(data_type) \subseteq records[i])
         THEN "Missing required field"
         ELSE NoError

upload_data(st, data_type, data) ==
    LET upload_id == generate_id("upl", Direct, st.uploads)
        records == IF Len(data) > 0 THEN data ELSE generate_sample_data(data_type)
        verdict == validate_data(data_type, records)
    IN IF verdict # NoError THEN Raised(st, verdict)
       ELSE Returned(store_upload(st, upload_id,
                [upload_id |-> upload_id, data_type |-> data_type,
                 records_count |-> Len(records), status |-> "completed",
                 data |-> records]), upload_id)

----------------------------------------------------------------------------
(* BatchService *)

StageOrder ==
    <<"data_validation", "similarity_computation", "topology_inference",
      "anomaly_detection", "propagation_analysis", "insight_generation",
      "visualization_generation">>

NumStages == 7

Configs == [propagation_analysis : BOOLEAN, generate_report : BOOLEAN,
            generate_visualizations : BOOLEAN]

\* the `if config.get(<option>, True)` tests of run_full_analysis and _run_pipeline
StageEnabled(name, config) ==
    CASE name = "propagation_analysis" -> config.propagation_analysis
      [] name = "insight_generation" -> config.generate_report
      [] name = "visualization_generation" -> config.generate_visualizations
      [] OTHER -> TRUE

NewStep(name) == [step |-> name, status |-> "pending", result_id |-> None, error |-> NoError]

RECURSIVE FilterSteps(_, _)
FilterSteps(i, config) ==
    IF i > NumStages THEN <<>>
    ELSE (IF StageEnabled(StageOrder[i], config) THEN <<NewStep(StageOrder[i])>> ELSE <<>>)
         \o FilterSteps(i + 1, config)

\* run_full_analysis: the step list stored with a new batch
InitialSteps(config) == FilterSteps(1, config)

NextStageIndex_last(i, config) ==
    IF \E j \in (i + 1)..NumStages : StageEnabled(StageOrder[j], config)
    THEN CHOOSE j \in (i + 1)..NumStages :
            /\ StageEnabled(StageOrder[j], config)
            /\ \A k \in (j + 1)..NumStages : ~StageEnabled(StageOrder[k], config)
    ELSE NumStages + 1

\* index of the first stage after i that the configuration enables; NumStages + 1 if none
NextStageIndex(i, config) ==
    IF \E j \in (i + 1)..NumStages : StageEnabled(StageOrder[j], config)
    THEN CHOOSE j \in (i + 1)..NumStages :
            /\ StageEnabled(StageOrder[j], config)
            /\ \A k \in (i + 1)..(j - 1) : ~StageEnabled(StageOrder[k], config)
    ELSE NumStages + 1

\* first index at which hits (one flag per step) is TRUE, 0 if none (for ... : if ...: ...; break)
FirstIndex(hits) ==
    IF \E i \in DOMAIN hits : hits[i]
    THEN CHOOSE i \in DOMAIN hits : hits[i] /\ \A k \in 1..(i - 1) : ~hits[k]
    ELSE 0

\* _update_step: the loop over batch["steps"]
SetStep(steps, step_name, status, result_id) ==
    LET hit == FirstIndex([i \in DOMAIN steps |-> steps[i].step = step_name])
    IN [i \in DOMAIN steps |->
          IF i = hit
          THEN [steps[i] EXCEPT !.status = status,
                                !.result_id = IF result_id # None THEN result_id ELSE @]
          ELSE steps[i]]

update_step_all(st, batch_id, step_name, status, result_id) ==
    IF ~Found(st.batches, batch_id) THEN st
    ELSE [st EXCEPT !.batches =
            [x \in DOMAIN @ |->
                [@[x] EXCEPT !.steps = SetStep(@, step_name, status, result_id)]]]

update_step(st, batch_id, step_name, status, result_id) ==
    IF ~Found(st.batches, batch_id) THEN st
    ELSE update_batch(st, batch_id,
            [steps |-> SetStep(st.batches[batch_id].steps, step_name, status, result_id)])

MarkFailed_noerror(steps, msg) ==
    LET hit == FirstIndex([i \in DOMAIN steps |-> steps[i].status = "processing"])
    IN [i \in DOMAIN steps |->
          IF i = hit THEN [steps[i] EXCEPT !.status = "failed"] ELSE steps[i]]

\* the except branch of _run_pipeline: the loop marking the step in progress
MarkFailed(steps, msg) ==
    LET hit == FirstIndex([i \in DOMAIN steps |-> steps[i].status = "processing"])
    IN [i \in DOMAIN steps |->
          IF i = hit THEN [steps[i] EXCEPT !.status = "failed", !.error = msg]
          ELSE steps[i]]

handle_failure_nostatus(st, batch_id, msg) ==
    update_batch(st, batch_id,
        [steps |-> MarkFailed(st.batches[batch_id].steps, msg),
         error |-> msg])

\* the except branch of _run_pipeline
handle_failure(st, batch_id, msg) ==
    update_batch(st, batch_id,
        [status |-> "failed",
         steps |-> MarkFailed(st.batches[batch_id].steps, msg),
         error |-> msg])

\* the last statement of the try block
finish_batch(st, batch_id, results) ==
    update_batch(st, batch_id,
        [status |-> "completed", completed_at |-> "now", results |-> results])

\* the three generate_* calls of the visualization stage, in the order of the
\* code; upto = how many of them are made (all of them unless one raises)
VizCalls(t) ==
    <<"heatmap", "topology_graph">> \o
        (IF t.propagation_id # None THEN <<"propagation_flow">> ELSE <<>>)

VizCall(st, t, kind) ==
    CASE kind = "heatmap" -> generate_heatmap(st, t.who, t.similarity_id)
      [] kind = "topology_graph" -> generate_topology_graph(st, t.who, t.topology_id)
      [] OTHER -> generate_propagation_flow(st, t.who, t.propagation_id)

RECURSIVE VizStage(_, _, _, _, _)
VizStage(st, t, k, upto, made) ==
    IF k > upto THEN [ok |-> TRUE, st |-> st, id |-> <<"vizlist", t.who, made>>, err |-> NoError]
    ELSE LET r == VizCall(st, t, VizCalls(t)[k])
         IN IF r.ok THEN VizStage(r.st, t, k + 1, upto, Append(made, r.id))
            ELSE r

\* the service call made by the stage at position t.idx, with the locals of the task
StageCall(st, t) ==
    LET name == StageOrder[t.idx]
    IN CASE name = "data_validation" ->
               IF Found(st.uploads, t.upload_id) THEN Returned(st, t.upload_id)
               ELSE Raised(st, "Upload not found")
         [] name = "similarity_computation" ->
               compute_similarity(st, t.who, t.upload_id, "correlation")
         [] name = "topology_inference" ->
               infer_topology(st, t.who, t.similarity_id, "hierarchical")
         [] name = "anomaly_detection" ->
               detect_anomalies(st, t.who, t.topology_id, t.similarity_id)
         [] name = "propagation_analysis" ->
               analyze_propagation(st, t.who, t.topology_id, t.upload_id)
         [] name = "insight_generation" ->
               generate_insights(st, t.who, t.topology_id, t.anomaly_id, t.propagation_id)
         [] OTHER -> VizStage(st, t, 1, Len(VizCalls(t)), <<>>)

\* the assignments to the locals and to results[...] after a stage returned
BindResult(t, id) ==
    LET name == StageOrder[t.idx]
    IN CASE name = "data_validation" -> t
         [] name = "similarity_computation" ->
               [t EXCEPT !.similarity_id = id, !.results = Merge(@, [similarity_id |-> id])]
         [] name = "topology_inference" ->
               [t EXCEPT !.topology_id = id, !.results = Merge(@, [topology_id |-> id])]
         [] name = "anomaly_detection" ->
               [t EXCEPT !.anomaly_id = id, !.results = Merge(@, [anomaly_id |-> id])]
         [] name = "propagation_analysis" ->
               [t EXCEPT !.propagation_id = id, !.results = Merge(@, [propagation_id |-> id])]
         [] name = "insight_generation" ->
               [t EXCEPT !.results = Merge(@, [report_id |-> id])]
         [] OTHER ->
               [t EXCEPT !.results = Merge(@, [visualizations |-> id[3]])]

Advance_final(t) ==
    [t EXCEPT !.idx = NumStages + 1, !.phase = "final"]

\* the coroutine moves on to the next enabled stage, or to the final update
Advance(t) ==
    LET j == NextStageIndex(t.idx, t.config)
    IN [t EXCEPT !.idx = j, !.phase = IF j > NumStages THEN "final" ELSE "begin"]

NewTask(batch_id, upload_id, config) ==
    [who |-> batch_id[3], idx |-> 1, phase |-> "begin", upload_id |-> upload_id, config |-> config,
     similarity_id |-> None, topology_id |-> None, anomaly_id |-> None,
     propagation_id |-> None, results |-> EmptyDict]

----------------------------------------------------------------------------
(* Actions *)

Call(op, args, r) ==
    [op |-> op, args |-> args, status |-> IF r.ok THEN "ok" ELSE "error",
     value |-> IF r.ok THEN r.id ELSE r.err]

----------------------------------------------------------------------------
(* RateLimiter, src/backend/app/core/security.py.  limiter.entries is the  *)
(* _entries dictionary (per key, the request timestamps kept),             *)
(* limiter.threads the position and the locals of each thread inside       *)
(* check_rate_limit, limiter.clock what time.time() returns, and           *)
(* limiter.allowed the calls that returned allowed = True, with the        *)
(* timestamp they recorded.  A `with lock:` block is one step.             *)

NumThreads == 2      \* threads that call check_rate_limit
MaxTime == 3         \* the clock stops there
MaxChecks == 4       \* check_rate_limit calls

\* the limits the limiter was constructed with
max_requests == 2
window_seconds == 2

Threads == 1..NumThreads

Keys == {"key_a", "key_b"}

Idle == [pc |-> "idle", key |-> "", now |-> 0, current_count |-> 0]

LimiterInit ==
    [clock |-> 0, entries |-> [k \in {} |-> <<>>], threads |-> [th \in Threads |-> Idle],
     allowed |-> <<>>, checks |-> 0]

\* time passes
Tick ==
    /\ limiter.clock < MaxTime
    /\ limiter' = [limiter EXCEPT !.clock = @ + 1]
    /\ UNCHANGED <<storage, task, ret, table, simOut, kmeans_labels, tp, anomaly_rows>>

\* check_rate_limit, lines 163-166: now = time.time(); entry = self._entries[key]
BeginCheck(th, key) ==
    /\ limiter.threads[th].pc = "idle"
    /\ limiter.checks < MaxChecks
    /\ limiter' = [limiter EXCEPT
          !.threads[th] = [pc |-> "get_count", key |-> key, now |-> limiter.clock,
                           current_count |-> 0],
          !.entries = IF key \in DOMAIN @ THEN @ ELSE Put(@, key, <<>>),
          !.checks = @ + 1]
    /\ UNCHANGED <<storage, task, ret, table, simOut, kmeans_labels, tp, anomaly_rows>>

\* the timestamps of a list that are later than the cutoff
Unexpired(requests, cutoff) ==
    LET later(ts) == ts > cutoff
    IN SelectSeq(requests, later)

\* RateLimitEntry.get_count
get_count(requests, clock) == Len(Unexpired(requests, clock - window_seconds))

\* RateLimitEntry.add_request
add_request(requests, timestamp) ==
    Append(Unexpired(requests, timestamp - window_seconds), timestamp)

\* line 169: current_count = entry.get_count(self.window_seconds)
GetCount(th) ==
    /\ limiter.threads[th].pc = "get_count"
    /\ limiter' = [limiter EXCEPT
          !.threads[th].pc = "decide",
          !.threads[th].current_count =
              get_count(limiter.entries[limiter.threads[th].key], limiter.clock)]
    /\ UNCHANGED <<storage, task, ret, table, simOut, kmeans_labels, tp, anomaly_rows>>

\* lines 171-179: the limit is reached and the call returns False, or the
\* request is added and the call returns True
Decide(th) ==
    /\ limiter.threads[th].pc = "decide"
    /\ LET t == limiter.threads[th]
       IN IF t.current_count >= max_requests
          THEN limiter' = [limiter EXCEPT !.threads[th] = Idle]
          ELSE limiter' = [limiter EXCEPT
                  !.threads[th] = Idle,
                  !.entries[t.key] = add_request(@, t.now),
                  !.allowed = Append(@, [key |-> t.key, at |-> t.now])]
    /\ UNCHANGED <<storage, task, ret, table, simOut, kmeans_labels, tp, anomaly_rows>>

NoSim == <<>>

Init ==
    /\ storage = StorageInit
    /\ task = EmptyDict
    /\ ret = [op |-> "init", args |-> <<>>, status |-> "ok", value |-> None]
    /\ table = NoSim
    /\ simOut = NoSim
    /\ kmeans_labels = NoSim
    /\ tp = NoSim
    /\ anomaly_rows = NoSim
    /\ limiter = LimiterInit

UploadData(data_type, data) ==
    /\ Cardinality(DOMAIN storage.uploads) < MaxUploads
    /\ LET r == upload_data(storage, data_type, data)
       IN /\ storage' = r.st
          /\ ret' = Call("upload_data", <<data_type, data>>, r)
    /\ UNCHANGED <<task, table, simOut, kmeans_labels, tp, anomaly_rows, limiter>>

RunFullAnalysis(upload_id, config) ==
    /\ Cardinality(DOMAIN storage.batches) < MaxBatches
    /\ LET batch_id == generate_id("batch", Direct, storage.batches)
       IN /\ storage' = store_batch(storage, batch_id,
                [batch_id |-> batch_id, upload_id |-> upload_id, config |-> config,
                 status |-> "processing", steps |-> InitialSteps(config),
                 results |-> EmptyDict])
          /\ task' = Put(task, batch_id, NewTask(batch_id, upload_id, config))
          /\ ret' = [op |-> "run_full_analysis", args |-> <<upload_id, config>>,
                     status |-> "ok", value |-> batch_id]
    /\ UNCHANGED <<table, simOut, kmeans_labels, tp, anomaly_rows, limiter>>

\* _run_pipeline: self._update_step(batch_id, <stage>, "processing")
StartStep(b) ==
    /\ b \in DOMAIN task
    /\ task[b].phase = "begin"
    /\ storage' = update_step(storage, b, StageOrder[task[b].idx], "processing", None)
    /\ task' = [task EXCEPT ![b].phase = "call"]
    /\ UNCHANGED <<ret, table, simOut, kmeans_labels, tp, anomaly_rows, limiter>>

\* _run_pipeline: the stage call returns; results and the step are updated
StageReturn(b) ==
    /\ b \in DOMAIN task
    /\ task[b].phase = "call"
    /\ \E r \in {StageCall(storage, task[b])} :
          /\ r.ok
          /\ storage' = update_step(r.st, b, StageOrder[task[b].idx], "completed", r.id)
          /\ task' = [task EXCEPT ![b] = Advance(BindResult(@, r.id))]
    /\ UNCHANGED <<ret, table, simOut, kmeans_labels, tp, anomaly_rows, limiter>>

\* _run_pipeline: the stage call raises, by its own not-found check
StageRaise(b) ==
    /\ b \in DOMAIN task
    /\ task[b].phase = "call"
    /\ \E r \in {StageCall(storage, task[b])} :
          /\ ~r.ok
          /\ storage' = handle_failure(r.st, b, r.err)
    /\ task' = [task EXCEPT ![b].phase = "exit"]
    /\ UNCHANGED <<ret, table, simOut, kmeans_labels, tp, anomaly_rows, limiter>>

\* _run_pipeline: the stage call raises from inside the computation (pandas,
\* numpy, scipy, rendering); for the visualization stage, after `made` of its
\* generate_* calls have stored their output
StageFault(b, made) ==
    /\ b \in DOMAIN task
    /\ task[b].phase = "call"
    /\ StageOrder[task[b].idx] # "data_validation"
    /\ IF StageOrder[task[b].idx] = "visualization_generation"
       THEN /\ made < Len(VizCalls(task[b]))
            /\ storage' = handle_failure(VizStage(storage, task[b], 1, made, <<>>).st,
                                         b, "internal error")
       ELSE /\ made = 0
            /\ storage' = handle_failure(storage, b, "internal error")
    /\ task' = [task EXCEPT ![b].phase = "exit"]
    /\ UNCHANGED <<ret, table, simOut, kmeans_labels, tp, anomaly_rows, limiter>>

\* _run_pipeline: storage.update_batch(batch_id, {"status": "completed", ...})
Finalize(b) ==
    /\ b \in DOMAIN task
    /\ task[b].phase = "final"
    /\ storage' = finish_batch(storage, b, task[b].results)
    /\ task' = [task EXCEPT ![b].phase = "exit"]
    /\ UNCHANGED <<ret, table, simOut, kmeans_labels, tp, anomaly_rows, limiter>>

(* Single-stage operations called directly (the API routes) *)

ArgIds(prefix) == {<<prefix, Direct, n>> : n \in 1..(MaxDirect + 1)}

Room(dict) == Cardinality(DOMAIN dict) < MaxDirect

ComputeSimilarity(upload_id) ==
    /\ Room(storage.similarities)
    /\ LET r == compute_similarity(storage, Direct, upload_id, "correlation")
       IN /\ storage' = r.st
          /\ ret' = Call("compute_similarity", <<upload_id>>, r)
    /\ UNCHANGED <<task, table, simOut, kmeans_labels, tp, anomaly_rows, limiter>>

InferTopology(similarity_id) ==
    /\ Room(storage.topologies)
    /\ LET r == infer_topology(storage, Direct, similarity_id, "hierarchical")
       IN /\ storage' = r.st
          /\ ret' = Call("infer_topology", <<similarity_id>>, r)
    /\ UNCHANGED <<task, table, simOut, kmeans_labels, tp, anomaly_rows, limiter>>

DetectAnomalies(topology_id, similarity_id) ==
    /\ Room(storage.anomalies)
    /\ LET r == detect_anomalies(storage, Direct, topology_id, similarity_id)
       IN /\ storage' = r.st
          /\ ret' = Call("detect_anomalies", <<topology_id, similarity_id>>, r)
    /\ UNCHANGED <<task, table, simOut, kmeans_labels, tp, anomaly_rows, limiter>>

AnalyzePropagation(topology_id, upload_id) ==
    /\ Room(storage.propagations)
    /\ LET r == analyze_propagation(storage, Direct, topology_id, upload_id)
       IN /\ storage' = r.st
          /\ ret' = Call("analyze_propagation", <<topology_id, upload_id>>, r)
    /\ UNCHANGED <<task, table, simOut, kmeans_labels, tp, anomaly_rows, limiter>>

GetSimilarity(similarity_id) ==
    /\ LET r == get_similarity(storage, similarity_id)
       IN /\ storage' = r.st
          /\ ret' = [op |-> "get_similarity", args |-> <<similarity_id>>,
                     status |-> "ok", value |-> r.value]
    /\ UNCHANGED <<task, table, simOut, kmeans_labels, tp, anomaly_rows, limiter>>

GetTopology(topology_id) ==
    /\ ret' = [op |-> "get_topology", args |-> <<topology_id>>,
               status |-> "ok", value |-> get_topology(storage, topology_id)]
    /\ UNCHANGED <<storage, task, table, simOut, kmeans_labels, tp, anomaly_rows, limiter>>

GetAnomaly(analysis_id) ==
    /\ ret' = [op |-> "get_anomaly", args |-> <<analysis_id>>,
               status |-> "ok", value |-> get_anomaly(storage, analysis_id)]
    /\ UNCHANGED <<storage, task, table, simOut, kmeans_labels, tp, anomaly_rows, limiter>>

GetPropagation(propagation_id) ==
    /\ ret' = [op |-> "get_propagation", args |-> <<propagation_id>>,
               status |-> "ok", value |-> get_propagation(storage, propagation_id)]
    /\ UNCHANGED <<storage, task, table, simOut, kmeans_labels, tp, anomaly_rows, limiter>>

CompleteRecords(data_type, n) == [i \in 1..n |-> required_fields(data_type)]

ConfigInputs ==
    {[propagation_analysis |-> TRUE, generate_report |-> TRUE, generate_visualizations |-> TRUE],
     [propagation_analysis |-> FALSE, generate_report |-> TRUE, generate_visualizations |-> TRUE],
     [propagation_analysis |-> FALSE, generate_report |-> FALSE, generate_visualizations |-> FALSE]}

\* the batch pipeline: uploads, run_full_analysis, and the steps of _run_pipeline
Next ==
    \/ \E dt \in {"loss_events"} : UploadData(dt, CompleteRecords(dt, 1))
    \/ \E u \in UploadIdSpace, c \in ConfigInputs : RunFullAnalysis(u, c)
    \/ \E b \in BatchIdSpace : StartStep(b)
    \/ \E b \in BatchIdSpace : StageReturn(b)
    \/ \E b \in BatchIdSpace : StageRaise(b)
    \/ \E b \in BatchIdSpace, made \in 0..2 : StageFault(b, made)
    \/ \E b \in BatchIdSpace : Finalize(b)

Spec == Init /\ [][Next]_vars

\* the single-stage operations called directly, and the get_* calls
NextOps ==
    \/ \E dt \in {"loss_events", "throughput"} : UploadData(dt, CompleteRecords(dt, 1))
    \/ \E u \in UploadIdSpace : ComputeSimilarity(u)
    \/ \E s \in ArgIds("sim") : InferTopology(s)
    \/ \E t \in ArgIds("topo"), s \in ArgIds("sim") : DetectAnomalies(t, s)
    \/ \E t \in ArgIds("topo"), u \in UploadIdSpace : AnalyzePropagation(t, u)
    \/ \E s \in ArgIds("sim") : GetSimilarity(s)
    \/ \E t \in ArgIds("topo") : GetTopology(t)
    \/ \E a \in ArgIds("anom") : GetAnomaly(a)
    \/ \E q \in ArgIds("prop") : GetPropagation(q)

SpecOps == Init /\ [][NextOps]_vars

\* a step of the coroutine of batch b
PipelineStep(b) ==
    \/ StartStep(b)
    \/ StageReturn(b)
    \/ StageRaise(b)
    \/ \E made \in 0..2 : StageFault(b, made)
    \/ Finalize(b)

\* fairness: the event loop keeps running the pipeline coroutines that can
\* run, and a stage call that was made returns or raises
FairConfigs ==
    {c \in ConfigInputs :
        c.propagation_analysis = c.generate_report
            /\ c.generate_report = c.generate_visualizations}

\* the service after one upload_data call
InitFair ==
    /\ storage = upload_data(StorageInit, "loss_events", CompleteRecords("loss_events", 1)).st
    /\ task = EmptyDict
    /\ ret = [op |-> "init", args |-> <<>>, status |-> "ok", value |-> None]
    /\ table = NoSim
    /\ simOut = NoSim
    /\ kmeans_labels = NoSim
    /\ tp = NoSim
    /\ anomaly_rows = NoSim
    /\ limiter = LimiterInit

NextFair ==
    \/ \E u \in UploadIdSpace, c \in FairConfigs : RunFullAnalysis(u, c)
    \/ \E b \in BatchIdSpace : PipelineStep(b)

SpecFair ==
    InitFair /\ [][NextFair]_vars /\ WF_vars(\E b \in BatchIdSpace : PipelineStep(b))

----------------------------------------------------------------------------
(* Properties of the batch pipeline *)

Batches == storage.batches

ResultKinds == {"uploads", "similarities", "topologies", "anomalies",
                "propagations", "reports", "visualizations"}

\* a stage of batch b raises in this step
Raises(b) == b \in DOMAIN task /\ task[b].phase = "call" /\ task'[b].phase = "exit"

ProcessingIndex(steps) == FirstIndex([i \in DOMAIN steps |-> steps[i].status = "processing"])

\* steps 1..k-1 completed with a result id, step k failed with an error, the rest pending
FailedAt(steps, k) ==
    /\ steps[k].status = "failed"
    /\ steps[k].error # NoError
    /\ \A i \in 1..(k - 1) : steps[i].status = "completed" /\ steps[i].result_id # None
    /\ \A i \in (k + 1)..Len(steps) :
          steps[i].status = "pending" /\ steps[i].result_id = None

\* C1: when a stage of _run_pipeline raises, the step that was running becomes
\* failed and carries the error message, the batch becomes failed, the earlier
\* steps stay completed with their result ids, the later steps stay pending;
\* and a failed batch is not touched again (no later step is ever started).
C1_FailureMarksRunningStep ==
    [][\A b \in DOMAIN task :
          /\ Raises(b) =>
                LET k == ProcessingIndex(Batches[b].steps)
                    old == Batches[b].steps
                    new == storage'.batches[b].steps
                IN /\ k # 0
                   /\ storage'.batches[b].status = "failed"
                   /\ storage'.batches[b].error = new[k].error
                   /\ FailedAt(new, k)
                   /\ \A i \in DOMAIN old : i # k => new[i] = old[i]
          /\ (task[b].phase = "exit" /\ Batches[b].status = "failed") =>
                /\ storage'.batches[b] = Batches[b]
                /\ task'[b] = task[b]]_vars

C1_Witness ==
    \E b \in DOMAIN task :
        /\ task[b].phase = "exit"
        /\ Batches[b].status = "failed"
        /\ Len(Batches[b].steps) = NumStages
        /\ Batches[b].steps[4].status = "failed"
        /\ Batches[b].steps[3].status = "completed"
        /\ Batches[b].steps[5].status = "pending"

\* where the result recorded by a completed step is stored
StoredUnder(st, step) ==
    CASE step.step = "data_validation" -> step.result_id \in DOMAIN st.uploads
      [] step.step = "similarity_computation" -> step.result_id \in DOMAIN st.similarities
      [] step.step = "topology_inference" -> step.result_id \in DOMAIN st.topologies
      [] step.step = "anomaly_detection" -> step.result_id \in DOMAIN st.anomalies
      [] step.step = "propagation_analysis" -> step.result_id \in DOMAIN st.propagations
      [] step.step = "insight_generation" -> step.result_id \in DOMAIN st.reports
      [] OTHER -> \A i \in DOMAIN step.result_id[3] :
                      step.result_id[3][i] \in DOMAIN st.visualizations

CompletedResultsStored(st, b) ==
    \A i \in DOMAIN st.batches[b].steps :
        st.batches[b].steps[i].status = "completed" => StoredUnder(st, st.batches[b].steps[i])

EntriesKept(old, new) ==
    \A kind \in ResultKinds : \A id \in DOMAIN old[kind] :
        id \in DOMAIN new[kind] /\ new[kind][id] = old[kind][id]

\* C2: after a pipeline failed, every result stored by an earlier completed
\* stage is still in the store under the result id of its step, and the
\* failure handling changes the content of no stored result.
C2_FailureKeepsResults ==
    [][\A b \in DOMAIN task :
          /\ Raises(b) => EntriesKept(storage, storage')
          /\ (b \in DOMAIN task' /\ task'[b].phase = "exit"
                /\ storage'.batches[b].status = "failed")
                => CompletedResultsStored(storage', b)]_vars

C2_Witness ==
    \E b \in DOMAIN task :
        /\ task[b].phase = "exit"
        /\ Batches[b].status = "failed"
        /\ \E i \in DOMAIN Batches[b].steps :
              /\ Batches[b].steps[i].step = "propagation_analysis"
              /\ Batches[b].steps[i].status = "failed"
        /\ \A i \in 1..4 : Batches[b].steps[i].status = "completed"
        /\ CompletedResultsStored(storage, b)

StepNames(steps) == [i \in DOMAIN steps |-> steps[i].step]

StepOf(steps, name) == steps[FirstIndex([i \in DOMAIN steps |-> steps[i].step = name])]

HasStep(steps, name) == \E i \in DOMAIN steps : steps[i].step = name

Started(steps, name) == HasStep(steps, name) /\ StepOf(steps, name).status # "pending"

Done(steps, name) == HasStep(steps, name) /\ StepOf(steps, name).status = "completed"

\* C3: the enabled stages start strictly in the order of the step list
\* (data_validation ... visualization_generation, the disabled ones left out):
\* a step has left pending only if every step before it is completed; a stage
\* whose pipeline position is reached is an enabled one; topology inference
\* starts only with the similarity matrix stored, anomaly detection and
\* propagation analysis only with the topology result stored.
C3_StagesStartInOrder ==
    \A b \in DOMAIN task :
        LET steps == Batches[b].steps
        IN /\ StepNames(steps) = StepNames(InitialSteps(Batches[b].config))
           /\ \A i \in DOMAIN steps : steps[i].status # "pending" =>
                 \A j \in 1..(i - 1) : steps[j].status = "completed"
           /\ task[b].phase \in {"begin", "call"} =>
                 /\ HasStep(steps, StageOrder[task[b].idx])
                 /\ task[b].phase = "call" <=>
                        StepOf(steps, StageOrder[task[b].idx]).status = "processing"
           /\ Started(steps, "topology_inference") =>
                 /\ Done(steps, "similarity_computation")
                 /\ StepOf(steps, "similarity_computation").result_id
                        \in DOMAIN storage.similarities
           /\ (Started(steps, "anomaly_detection") \/ Started(steps, "propagation_analysis")) =>
                 /\ Done(steps, "topology_inference")
                 /\ StepOf(steps, "topology_inference").result_id
                        \in DOMAIN storage.topologies

C3_Witness ==
    \E b \in DOMAIN task :
        /\ ~Batches[b].config.propagation_analysis
        /\ Batches[b].config.generate_visualizations
        /\ Started(Batches[b].steps, "visualization_generation")
        /\ Done(Batches[b].steps, "insight_generation")

\* C4: a run_full_analysis request for an upload id that is not in the store
\* is rejected by the call itself and creates no batch.
C4_UnknownUploadRejected ==
    /\ \A b \in DOMAIN Batches : Batches[b].upload_id \in DOMAIN storage.uploads
    /\ (ret.op = "run_full_analysis" /\ ret.args[1] \notin DOMAIN storage.uploads)
          => ret.status = "error"

\* the inputs recorded in the result stored by a completed step of batch b are
\* the batch's own upload and the results of the batch's own earlier steps
OwnInputs(st, b) ==
    LET steps == st.batches[b].steps
        rid(name) == StepOf(steps, name).result_id
    IN /\ Done(steps, "data_validation") => rid("data_validation") = st.batches[b].upload_id
       /\ Done(steps, "similarity_computation") =>
             st.similarities[rid("similarity_computation")].upload_id = st.batches[b].upload_id
       /\ Done(steps, "topology_inference") =>
             st.topologies[rid("topology_inference")].similarity_id
                 = rid("similarity_computation")
       /\ Done(steps, "anomaly_detection") =>
             /\ st.anomalies[rid("anomaly_detection")].topology_id = rid("topology_inference")
             /\ st.anomalies[rid("anomaly_detection")].similarity_id
                    = rid("similarity_computation")
       /\ Done(steps, "propagation_analysis") =>
             /\ st.propagations[rid("propagation_analysis")].topology_id
                    = rid("topology_inference")
             /\ st.propagations[rid("propagation_analysis")].upload_id = st.batches[b].upload_id
       /\ Done(steps, "insight_generation") =>
             /\ st.reports[rid("insight_generation")].topology_id = rid("topology_inference")
             /\ st.reports[rid("insight_generation")].anomaly_id = rid("anomaly_detection")
       /\ Done(steps, "visualization_generation") =>
             LET v == rid("visualization_generation")[3]
             IN /\ st.visualizations[v[1]].source = rid("similarity_computation")
                /\ st.visualizations[v[2]].source = rid("topology_inference")

\* no result id is recorded by two batches
DisjointResults(st) ==
    \A b, c \in DOMAIN st.batches : b # c =>
        \A i \in DOMAIN st.batches[b].steps, j \in DOMAIN st.batches[c].steps :
            (/\ st.batches[b].steps[i].step # "data_validation"
             /\ st.batches[b].steps[i].result_id # None)
                => st.batches[b].steps[i].result_id # st.batches[c].steps[j].result_id

\* the outcome of a finished batch is the one its own steps give
OwnOutcome(st, tk, b) ==
    tk[b].phase = "exit" =>
        LET steps == st.batches[b].steps
        IN IF st.batches[b].status = "completed"
           THEN \A i \in DOMAIN steps : steps[i].status = "completed"
           ELSE /\ st.batches[b].status = "failed"
                /\ \E k \in DOMAIN steps : FailedAt(steps, k)

\* C8: pipeline runs with distinct batch ids, interleaved in any order, do not
\* affect each other: a step of one run changes neither the batch record nor
\* the coroutine of another run, and no entry stored under an existing id of
\* any result dictionary; every run consumes its own upload and its own
\* earlier results, records result ids no other run records, and ends with
\* the status its own steps give.
C8_RunsAreIsolated ==
    [][/\ \A b \in DOMAIN task : \A c \in DOMAIN task :
             (b # c /\ task'[b] # task[b]) =>
                 /\ task'[c] = task[c]
                 /\ storage'.batches[c] = Batches[c]
       /\ EntriesKept(storage, storage')
       /\ \A b \in DOMAIN task' :
             /\ OwnInputs(storage', b)
             /\ OwnOutcome(storage', task', b)
       /\ DisjointResults(storage')]_vars

C8_Witness ==
    \E b \in DOMAIN task : \E c \in DOMAIN task :
        /\ b # c
        /\ Batches[b].upload_id = Batches[c].upload_id
        /\ task[b].phase = "exit" /\ Batches[b].status = "completed"
        /\ Len(Batches[b].steps) = NumStages
        /\ task[c].phase = "exit" /\ Batches[c].status = "failed"
        /\ Done(Batches[c].steps, "insight_generation")

\* C9: every batch started by run_full_analysis eventually is completed or
\* failed (each stage call returning or raising): none stays processing.
C9_EveryBatchFinishes ==
    \A b \in BatchIdSpace :
        (b \in DOMAIN Batches) ~>
            (b \in DOMAIN Batches /\ Batches[b].status \in {"completed", "failed"})

C9_Witness ==
    \E b \in DOMAIN task :
        /\ task[b].phase = "exit"
        /\ Batches[b].status = "completed"
        /\ Len(Batches[b].steps) = 4
        /\ storage.active_jobs = 0

----------------------------------------------------------------------------
(* Properties of the single-stage operations *)

\* the call recorded in r names a prior-stage id that is not in the store st
UnknownPrior(r, st) ==
    CASE r.op = "compute_similarity" -> r.args[1] \notin DOMAIN st.uploads
      [] r.op = "infer_topology" -> r.args[1] \notin DOMAIN st.similarities
      [] r.op = "detect_anomalies" ->
            r.args[1] \notin DOMAIN st.topologies \/ r.args[2] \notin DOMAIN st.similarities
      [] r.op = "analyze_propagation" ->
            r.args[1] \notin DOMAIN st.topologies \/ r.args[2] \notin DOMAIN st.uploads
      [] OTHER -> FALSE

\* C5: compute_similarity, infer_topology, detect_anomalies and
\* analyze_propagation, called with a prior-stage id that is not in the store,
\* raise and leave the store as it was.
C5_UnknownIdRaises ==
    [][UnknownPrior(ret', storage) => (ret'.status = "error" /\ storage' = storage)]_vars

C5_Witness ==
    /\ ret.op = "detect_anomalies"
    /\ ret.status = "error"
    /\ ret.args[1] \in DOMAIN storage.topologies
    /\ ret.args[2] \notin DOMAIN storage.similarities

\* C7: once a similarity matrix, topology, anomaly or propagation result is
\* stored, no later operation (get_* calls included) changes the content
\* stored under its id.
C7_StoredResultsNeverChange ==
    [][\A kind \in {"similarities", "topologies", "anomalies", "propagations"} :
          \A id \in DOMAIN storage[kind] :
              id \in DOMAIN storage'[kind] /\ storage'[kind][id] = storage[kind][id]]_vars

----------------------------------------------------------------------------
(* upload_data on record lists with at most one incomplete record *)

\* n records for data_type, complete except that record p (if any) lacks field f
RecordList(data_type, n, p, f) ==
    [i \in 1..n |-> IF i = p THEN required_fields(data_type) \ {f}
                    ELSE required_fields(data_type)]

RecordInputs(data_type) ==
    {<<>>} \cup {RecordList(data_type, n, p, f) :
                    n \in 1..MaxRecords, p \in 0..MaxRecords, f \in required_fields(data_type)}

NextUpload ==
    \E dt \in {"loss_events", "throughput"} : \E data \in RecordInputs(dt) : UploadData(dt, data)

SpecUpload == Init /\ [][NextUpload]_vars

Incomplete(data_type, record) == ~(required_fields(data_type) \subseteq record)

\* C6 as claimed: upload_data raises and stores nothing for every record list
\* in which some record, at whatever position, lacks a required field.
C6_AnyIncompleteRecordRejected ==
    /\ \A u \in DOMAIN storage.uploads :
          \A i \in DOMAIN storage.uploads[u].data :
              ~Incomplete(storage.uploads[u].data_type, storage.uploads[u].data[i])
    /\ (ret.op = "upload_data"
          /\ \E i \in DOMAIN ret.args[2] : Incomplete(ret.args[1], ret.args[2][i]))
          => ret.status = "error"

\* C6 amended: upload_data raises and stores nothing for every record list in
\* which one of the first 10 records lacks a required field.
C6_IncompleteAmongFirstTenRejected ==
    [][(ret'.op = "upload_data"
          /\ \E i \in DOMAIN ret'.args[2] : i <= 10 /\ Incomplete(ret'.args[1], ret'.args[2][i]))
          => (ret'.status = "error" /\ storage' = storage)]_vars

C6_Witness ==
    /\ ret.op = "upload_data"
    /\ ret.status = "error"
    /\ Len(ret.args[2]) = 11
    /\ Incomplete(ret.args[1], ret.args[2][10])
    /\ \A i \in 1..9 : ~Incomplete(ret.args[1], ret.args[2][i])

----------------------------------------------------------------------------
(* The similarity computations.  A table gives, per slot and cell, the     *)
(* value of the record (loss_event, throughput_slot or congestion_event),  *)
(* or Absent when the data has no record for that slot and cell.           *)

Absent == -1

Tables == [1..NumSlots -> [1..NumCells -> {Absent} \cup (0..MaxVal)]]

RECURSIVE SortedSeq(_)
SortedSeq(S) ==
    IF S = {} THEN <<>>
    ELSE LET m == CHOOSE x \in S : \A y \in S : x <= y
         IN <<m>> \o SortedSeq(S \ {m})

\* sorted(df["cell_id"].unique()): the cells that have a record
CellIdList(t) == SortedSeq({c \in 1..NumCells : \E s \in 1..NumSlots : t[s][c] # Absent})

\* the index of the pivot table: the slots that have a record
SlotIdList(t) == SortedSeq({s \in 1..NumSlots : \E c \in 1..NumCells : t[s][c] # Absent})

\* pivot_table(index="slot_id", columns="cell_id", fill_value=0), one column
Column(t, c) ==
    LET slots == SlotIdList(t)
    IN [k \in 1..Len(slots) |-> IF t[slots[k]][c] = Absent THEN 0 ELSE t[slots[k]][c]]

\* the congestion pivot of similarity_matrix.py: binary events, aggfunc max, fillna(0)
BinaryColumn(t, c) ==
    LET slots == SlotIdList(t)
    IN [k \in 1..Len(slots) |-> IF t[slots[k]][c] > 0 THEN 1 ELSE 0]

RECURSIVE SumTo(_, _)
SumTo(f, n) == IF n = 0 THEN 0 ELSE f[n] + SumTo(f, n - 1)

Dot(x, y) == SumTo([k \in 1..Len(x) |-> x[k] * y[k]], Len(x))

RECURSIVE ISqrtIn(_, _, _)
ISqrtIn(v, lo, hi) ==
    IF lo = hi THEN lo
    ELSE LET mid == (lo + hi + 1) \div 2
         IN IF mid * mid <= v THEN ISqrtIn(v, mid, hi) ELSE ISqrtIn(v, lo, mid - 1)

\* floor of the square root, for 0 <= v <= 10^8
ISqrt(v) == ISqrtIn(v, 0, 10000)

\* floor(10^8 * a / b) for 0 <= a <= b, in two steps to stay within 32 bits
Scale8(a, b) == 10000 * ((10000 * a) \div b) + (10000 * ((10000 * a) % b)) \div b

NaN == -2

\* DataFrame.corr() for two columns: the Pearson correlation in units of 1/5000
\* (so that (r + 1) / 2 is in units of 1e-4), NaN when a column has no variance
Pearson5000(x, y) ==
    LET n == Len(x)
        num == n * Dot(x, y) - SumTo(x, n) * SumTo(y, n)
        dx == n * Dot(x, x) - SumTo(x, n) * SumTo(x, n)
        dy == n * Dot(y, y) - SumTo(y, n) * SumTo(y, n)
        q == (ISqrt(Scale8(num * num, dx * dy)) + 1) \div 2
    IN IF dx = 0 \/ dy = 0 THEN NaN
       ELSE IF num >= 0 THEN q ELSE 0 - q

\* (corr_matrix + 1) / 2 in units of 1e-4; arithmetic on NaN gives NaN
Shift(v) == IF v = NaN THEN NaN ELSE v + 5000

\* _compute_correlation without the fillna(0)
compute_correlation_nofill(t) ==
    LET cells == CellIdList(t)
        corr(i, j) == Pearson5000(Column(t, cells[i]), Column(t, cells[j]))
        diag(i, j) == IF i = j THEN 5000 ELSE corr(i, j)
    IN [i \in 1..Len(cells) |-> [j \in 1..Len(cells) |-> Shift(diag(i, j))]]

\* SimilarityService._compute_correlation; entries in units of 1e-4
compute_correlation(t) ==
    LET cells == CellIdList(t)
        corr(i, j) == Pearson5000(Column(t, cells[i]), Column(t, cells[j]))
        filled(i, j) == IF corr(i, j) = NaN THEN 0 ELSE corr(i, j)
        diag(i, j) == IF i = j THEN 5000 ELSE filled(i, j)
    IN [i \in 1..Len(cells) |-> [j \in 1..Len(cells) |-> Shift(diag(i, j))]]

\* similarity_matrix.py: X @ X.T / (norms * norms), nan_to_num.  An entry
\* [n, d] stands for the value sqrt(n / d); 0 / 0 is NaN and becomes 0.
cosine_similarity(t) ==
    LET cells == CellIdList(t)
        X(i) == BinaryColumn(t, cells[i])
        entry(i, j) ==
            LET d == Dot(X(i), X(i)) * Dot(X(j), X(j))
            IN IF d = 0 THEN [n |-> 0, d |-> 1]
               ELSE [n |-> Dot(X(i), X(j)) * Dot(X(i), X(j)), d |-> d]
    IN [i \in 1..Len(cells) |-> [j \in 1..Len(cells) |-> entry(i, j)]]

InitSim ==
    /\ storage = StorageInit
    /\ task = EmptyDict
    /\ ret = [op |-> "init", args |-> <<>>, status |-> "ok", value |-> None]
    /\ table \in {t \in Tables : CellIdList(t) # <<>>}
    /\ simOut = NoSim
    /\ kmeans_labels = NoSim
    /\ tp = NoSim
    /\ anomaly_rows = NoSim
    /\ limiter = LimiterInit

ComputeCorrelation ==
    /\ simOut = NoSim
    /\ simOut' = [method |-> "correlation", cell_ids |-> CellIdList(table),
                  matrix |-> compute_correlation(table)]
    /\ UNCHANGED <<storage, task, ret, table, kmeans_labels, tp, anomaly_rows, limiter>>

ComputeCosine ==
    /\ simOut = NoSim
    /\ simOut' = [method |-> "cosine", cell_ids |-> CellIdList(table),
                  matrix |-> cosine_similarity(table)]
    /\ UNCHANGED <<storage, task, ret, table, kmeans_labels, tp, anomaly_rows, limiter>>

NextSim == ComputeCorrelation \/ ComputeCosine

SpecSim == InitSim /\ [][NextSim]_vars

\* the value of a matrix entry compared with 0 and 1, and with another entry
InUnit(m, e) == IF m = "correlation" THEN 0 <= e /\ e <= 10000 ELSE 0 <= e.n /\ e.n <= e.d

IsOne(m, e) == IF m = "correlation" THEN e = 10000 ELSE e.n = e.d

SameValue(m, e, f) == IF m = "correlation" THEN e = f ELSE e.n * f.d = f.n * e.d

\* C10: every similarity matrix produced (correlation method, cosine method on
\* binary congestion vectors) is square over the cell id list, symmetric, has
\* every value in [0,1] and every diagonal entry equal to 1.
C10_SimilarityMatrixWellFormed ==
    simOut # NoSim =>
        LET N == Len(simOut.cell_ids)
            M == simOut.matrix
        IN /\ DOMAIN M = 1..N
           /\ \A i \in 1..N : DOMAIN M[i] = 1..N
           /\ \A i \in 1..N : \A j \in 1..N :
                 /\ SameValue(simOut.method, M[i][j], M[j][i])
                 /\ InUnit(simOut.method, M[i][j])
           /\ \A i \in 1..N : IsOne(simOut.method, M[i][i])

\* a signal without variance: every slot of the pivot has the same value
ZeroVariance(x) == \A k \in DOMAIN x : x[k] = x[1]

\* C11: with the correlation method, a cell whose signal has zero variance
\* gets raw correlation 0 (similarity 0.5) against every other cell, and the
\* produced matrix is complete and holds no NaN.
C11_ZeroVarianceGivesZero ==
    (simOut # NoSim /\ simOut.method = "correlation") =>
        LET cells == simOut.cell_ids
            N == Len(cells)
            M == simOut.matrix
        IN /\ DOMAIN M = 1..N
           /\ \A i \in 1..N : DOMAIN M[i] = 1..N
           /\ \A i \in 1..N : \A j \in 1..N :
                 /\ M[i][j] # NaN
                 /\ (i # j /\ (ZeroVariance(Column(table, cells[i]))
                                \/ ZeroVariance(Column(table, cells[j]))))
                       => M[i][j] = 5000

C11_Witness ==
    /\ simOut # NoSim
    /\ simOut.method = "correlation"
    /\ Len(simOut.cell_ids) = 2
    /\ Len(SlotIdList(table)) = NumSlots
    /\ ZeroVariance(Column(table, 1))
    /\ ~ZeroVariance(Column(table, 2))
    /\ simOut.matrix[1][2] = 5000

\* the slots for which both cells have a record
CommonSlots(t, c1, c2) ==
    SortedSeq({sl \in 1..NumSlots : t[sl][c1] # Absent /\ t[sl][c2] # Absent})

\* the series of cell c over the given slots, as the method reads it
SeriesOver(m, t, c, slots) ==
    [k \in 1..Len(slots) |->
        IF m = "cosine" THEN (IF t[slots[k]][c] > 0 THEN 1 ELSE 0) ELSE t[slots[k]][c]]

\* the similarity the method gives to two aligned series
PairSimilarity(m, x, y) ==
    IF m = "cosine"
    THEN LET d == Dot(x, x) * Dot(y, y)
         IN IF d = 0 THEN [n |-> 0, d |-> 1] ELSE [n |-> Dot(x, y) * Dot(x, y), d |-> d]
    ELSE LET r == Pearson5000(x, y) IN Shift(IF r = NaN THEN 0 ELSE r)

\* C12: the similarity of two different cells is computed over the slots for
\* which both cells have a record, and only over those: slots present for
\* one of the two cells only are dropped before the series are compared.
C12_OnlyCommonSlotsCompared ==
    simOut # NoSim =>
        LET cells == simOut.cell_ids
            M == simOut.matrix
        IN \A i \in DOMAIN cells : \A j \in DOMAIN cells :
              i # j =>
                 LET common == CommonSlots(table, cells[i], cells[j])
                 IN SameValue(simOut.method, M[i][j],
                              PairSimilarity(simOut.method,
                                             SeriesOver(simOut.method, table, cells[i], common),
                                             SeriesOver(simOut.method, table, cells[j], common)))

----------------------------------------------------------------------------
(* Topology inference on a stored similarity matrix, with its numbers.     *)
(* Similarities and distances are in units of 1e-4, avg_similarity in      *)
(* units of 1e-3, confidence in units of 1e-2.  Cell ids are the numbers   *)
(* 1..TopoCells (the code keeps them as strings in ascending numeric       *)
(* order), labels are the integers the clustering returns.                 *)

TopoCells == 3
MaxTopo == 2

\* the similarity values of the matrices the inference is run on
SimLevels == {3000, 9000}

CellPairs == {p \in (1..TopoCells) \X (1..TopoCells) : p[1] < p[2]}

SimMatrices ==
    {[i \in 1..TopoCells |-> [j \in 1..TopoCells |->
          IF i = j THEN 10000 ELSE f[<<Min(i, j), i + j - Min(i, j)>>]]] :
       f \in [CellPairs -> SimLevels]}

\* distance_matrix = 1 - matrix; np.fill_diagonal(distance_matrix, 0)
distance_matrix(matrix) ==
    [i \in DOMAIN matrix |-> [j \in DOMAIN matrix |->
        IF i = j THEN 0 ELSE 10000 - matrix[i][j]]]

\* `if num_clusters:` and `num_clusters or 3`: None and 0 are both false
Auto == 0

DefaultThreshold == 5000

DefaultClusters == 3

\* sum of dist over A x B
PairSum(dist, A, B) ==
    LET sa == SortedSeq(A)
        sb == SortedSeq(B)
    IN SumTo([k \in 1..Len(sa) |->
                SumTo([m \in 1..Len(sb) |-> dist[sa[k]][sb[m]]], Len(sb))], Len(sa))

\* heights and cuts are fractions num / den
FracLeq(p, q) == p.num * q.den <= q.num * p.den

\* a node of the dendrogram: a leaf (an observation) or a merge of two nodes
Leaf(i) == [id |-> i, members |-> {i}, kids |-> <<>>, num |-> 0, den |-> 1]

\* average linkage distance between two clusters
AverageDistance(dist, a, b) ==
    [num |-> PairSum(dist, a.members, b.members),
     den |-> Cardinality(a.members) * Cardinality(b.members)]

\* linkage(condensed, method="average"): the two clusters at the smallest
\* average distance are merged, the new cluster gets the next id, and the
\* child with the smaller id comes first in its row of Z.  Among pairs at the
\* same distance the one with the smallest ids is taken here.
RECURSIVE Agglomerate(_, _, _)
Agglomerate(dist, forest, next) ==
    IF Cardinality(forest) = 1 THEN CHOOSE root \in forest : TRUE
    ELSE LET pairs == {p \in forest \X forest : p[1].id < p[2].id}
             d(p) == AverageDistance(dist, p[1], p[2])
             first(p, q) == p[1].id < q[1].id \/ (p[1].id = q[1].id /\ p[2].id <= q[2].id)
             best == CHOOSE p \in pairs : \A q \in pairs :
                        /\ FracLeq(d(p), d(q))
                        /\ FracLeq(d(q), d(p)) => first(p, q)
             node == [id |-> next, members |-> best[1].members \cup best[2].members,
                      kids |-> <<best[1], best[2]>>,
                      num |-> d(best).num, den |-> d(best).den]
         IN Agglomerate(dist, (forest \ {best[1], best[2]}) \cup {node}, next + 1)

linkage(dist) ==
    Agglomerate(dist, {Leaf(i) : i \in DOMAIN dist}, Len(dist) + 1)

\* the largest merge distance in the subtree of node is at most the cut
RECURSIVE WithinCut(_, _)
WithinCut(node, cut) ==
    \/ node.kids = <<>>
    \/ /\ FracLeq([num |-> node.num, den |-> node.den], cut)
       /\ WithinCut(node.kids[1], cut)
       /\ WithinCut(node.kids[2], cut)

\* fcluster numbers the flat clusters while it walks the dendrogram from the
\* root: at a node it first descends into the left child if that is a merge,
\* then into the right child if that is a merge, and only then labels the
\* children that are leaves; the topmost node within the cut opens a cluster
\* for its whole subtree, a leaf outside every such node opens its own.
RECURSIVE Visit(_, _, _, _)
Visit(node, led, n, cut) ==
    LET lead == ~led /\ WithinCut(node, cut)
        n1 == IF lead THEN n + 1 ELSE n
        in == led \/ lead
        L == node.kids[1]
        R == node.kids[2]
        rl == IF L.kids # <<>> THEN Visit(L, in, n1, cut) ELSE [T |-> {}, n |-> n1]
        rr == IF R.kids # <<>> THEN Visit(R, in, rl.n, cut) ELSE [T |-> {}, n |-> rl.n]
        nl == IF L.kids = <<>> /\ ~in THEN rr.n + 1 ELSE rr.n
        tl == IF L.kids = <<>> THEN {<<L.id, nl>>} ELSE {}
        nr == IF R.kids = <<>> /\ ~in THEN nl + 1 ELSE nl
        tr == IF R.kids = <<>> THEN {<<R.id, nr>>} ELSE {}
    IN [T |-> rl.T \cup rr.T \cup tl \cup tr, n |-> nr]

\* fcluster(Z, t, criterion="distance") for the cut t
fcluster(Z, cut) ==
    LET r == Visit(Z, FALSE, 0, cut)
    IN [i \in 1..Cardinality(Z.members) |-> (CHOOSE p \in r.T : p[1] = i)[2]]

RECURSIVE MergeHeights(_)
MergeHeights(node) ==
    IF node.kids = <<>> THEN {}
    ELSE {[num |-> node.num, den |-> node.den]}
            \cup MergeHeights(node.kids[1]) \cup MergeHeights(node.kids[2])

\* fcluster(Z, k, criterion="maxclust"): the smallest cut among the merge
\* distances that leaves at most k flat clusters
MaxclustCut(Z, k) ==
    LET fits == {c \in MergeHeights(Z) : Visit(Z, FALSE, 0, c).n <= k}
    IN CHOOSE c \in fits : \A c2 \in fits : FracLeq(c, c2)

\* TopologyService._hierarchical_clustering
hierarchical_clustering(dist, num_clusters, threshold) ==
    LET Z == linkage(dist)
        labels == IF num_clusters # Auto
                  THEN fcluster(Z, MaxclustCut(Z, num_clusters))
                  ELSE fcluster(Z, [num |-> threshold, den |-> 1])
    IN [i \in DOMAIN labels |-> labels[i] - 1]

\* the points DBSCAN reaches from the points of S through points within eps
RECURSIVE Reach(_, _, _)
Reach(dist, eps, S) ==
    LET more == S \cup {j \in DOMAIN dist : \E i \in S : dist[i][j] <= eps}
    IN IF more = S THEN S ELSE Reach(dist, eps, more)

\* TopologyService._dbscan_clustering: DBSCAN(eps, min_samples=2,
\* metric="precomputed").  A point is a core point when two points (itself
\* included) are within eps of it, so every point within eps of another one
\* is a core point; clusters are numbered in the order of their first point,
\* the other points are noise (-1).
dbscan_clustering(dist, eps) ==
    LET core(i) == Cardinality({j \in DOMAIN dist : dist[i][j] <= eps}) >= 2
        head(i) == CHOOSE m \in Reach(dist, eps, {i}) :
                      \A x \in Reach(dist, eps, {i}) : m <= x
        heads == {head(i) : i \in {x \in DOMAIN dist : core(x)}}
    IN [i \in DOMAIN dist |->
          IF core(i) THEN Cardinality({h \in heads : h < head(i)}) ELSE -1]

\* what KMeans(n_clusters=k).fit_predict may return for n points: labels
\* 0..m-1 for the m clusters it found, in an order the code does not control
KMeansOutcomes(n, k) ==
    {l \in [1..n -> 0..(k - 1)] :
        \E m \in 1..k : {l[i] : i \in 1..n} = 0..(m - 1)}

\* round(x, digits) of a quotient a / b, in the unit of the last digit kept
RoundDiv(a, b) == (2 * a + b) \div (2 * b)

link_names == <<"Link_A", "Link_B", "Link_C", "Link_D", "Link_E">>

\* TopologyService._build_groups; group_id i stands for "Group_i"
build_groups(cell_ids, labels, similarity_matrix) ==
    LET unique_labels == SortedSeq({labels[i] : i \in DOMAIN labels} \ {-1})
        group(i) ==
            LET indices == {idx \in DOMAIN labels : labels[idx] = unique_labels[i]}
                n == Cardinality(indices)
                avg_sim == IF n > 1
                           THEN RoundDiv(PairSum(similarity_matrix, indices, indices) - n * 10000,
                                         10 * n * (n - 1))
                           ELSE 1000
            IN [group_id |-> i,
                group_name |-> link_names[((i - 1) % Len(link_names)) + 1],
                cells |-> [k \in 1..n |-> cell_ids[SortedSeq(indices)[k]]],
                avg_similarity |-> avg_sim,
                cell_count |-> n]
    IN [i \in 1..Len(unique_labels) |-> group(i)]

\* _build_assignments that does not skip the cells labelled -1
build_assignments_noise(cell_ids, labels, groups, jitter) ==
    [i \in DOMAIN labels |->
        [cell_id |-> cell_ids[i], group_id |-> labels[i] + 1,
         confidence |-> RoundDiv(500 + jitter[i], 10)]]

\* TopologyService._build_assignments; jitter[i] is what
\* np.random.uniform(-0.05, 0.05) returns for cell i, in units of 1e-3
build_assignments(cell_ids, labels, groups, jitter) ==
    LET kept == SortedSeq({i \in DOMAIN labels : labels[i] # -1})
        confidence(i) == IF labels[i] < Len(groups)
                         THEN groups[labels[i] + 1].avg_similarity
                         ELSE 500
    IN [k \in 1..Len(kept) |->
          [cell_id |-> cell_ids[kept[k]],
           group_id |-> labels[kept[k]] + 1,
           confidence |-> RoundDiv(confidence(kept[k]) + jitter[kept[k]], 10)]]

\* infer_topology, lines 52-64: the labels of the chosen clustering; km is
\* what KMeans returns
cluster_labels(dist, clustering_method, num_clusters, distance_threshold, km) ==
    IF clustering_method = "kmeans" THEN km
    ELSE IF clustering_method = "dbscan" THEN dbscan_clustering(dist, distance_threshold)
    ELSE hierarchical_clustering(dist, num_clusters, distance_threshold)

\* the KMeans call is seeded (random_state=42): called again on the same
\* matrix with the same number of clusters it returns the same labels
KMeansDraws_unseeded(memo, key, n, k) == KMeansOutcomes(n, k)

KMeansDraws(memo, key, n, k) ==
    IF key \in DOMAIN memo THEN {memo[key]} ELSE KMeansOutcomes(n, k)

\* TopologyService.infer_topology, lines 66-97, with the content of the
\* stored result, for the labels the clustering gave
infer_topology_full(st, who, similarity_id, clustering_method, labels, groups, jitter) ==
    LET similarity_data == st.similarities[similarity_id]
        cell_ids == similarity_data.cell_ids
        cell_assignments == build_assignments(cell_ids, labels, groups, jitter)
        unassigned == SortedSeq({i \in DOMAIN labels : labels[i] = -1})
        id == generate_id("topo", who, st.topologies)
    IN Returned(store_topology(st, id,
           [topology_id |-> id, similarity_id |-> similarity_id,
            clustering_method |-> clustering_method,
            total_cells |-> Len(cell_ids),
            detected_groups |-> Cardinality({i \in DOMAIN groups : groups[i].cell_count > 0}),
            groups |-> groups,
            cell_assignments |-> cell_assignments,
            unassigned_cells |-> [k \in 1..Len(unassigned) |-> cell_ids[unassigned[k]]]]), id)

\* the draws of np.random.uniform, one per cell, in units of 1e-3: the same
\* for every cell, or alternating
JitterSamples == {-40, 40}

JitterDraws ==
    {[i \in 1..TopoCells |-> u] : u \in JitterSamples}
        \cup {[i \in 1..TopoCells |-> IF i % 2 = 1 THEN -40 ELSE 40]}

\* a call of infer_topology.  An unknown similarity id raises; with kmeans on
\* fewer cells than clusters KMeans raises; nothing is stored then.
InferTopologyFull(similarity_id, clustering_method, num_clusters, distance_threshold) ==
    /\ Cardinality(DOMAIN storage.topologies) < MaxTopo
    /\ LET k == IF num_clusters # Auto THEN num_clusters ELSE DefaultClusters
           key == <<similarity_id, k>>
           args == <<similarity_id, clustering_method, num_clusters, distance_threshold>>
       IN IF ~Found(storage.similarities, similarity_id)
          THEN /\ ret' = Call("infer_topology", args, Raised(storage, "Similarity matrix not found"))
               /\ UNCHANGED <<storage, kmeans_labels>>
          ELSE IF clustering_method = "kmeans"
                    /\ Len(storage.similarities[similarity_id].cell_ids) < k
          THEN /\ ret' = Call("infer_topology", args, Raised(storage, "n_samples < n_clusters"))
               /\ UNCHANGED <<storage, kmeans_labels>>
          ELSE LET similarity_data == storage.similarities[similarity_id]
                   n == Len(similarity_data.cell_ids)
               IN \E km \in IF clustering_method = "kmeans"
                            THEN KMeansDraws(kmeans_labels, key, n, k) ELSE {<<>>} :
                  \E labels \in {cluster_labels(distance_matrix(similarity_data.matrix),
                                    clustering_method, num_clusters, distance_threshold, km)} :
                  \E groups \in {build_groups(similarity_data.cell_ids, labels,
                                              similarity_data.matrix)} :
                  \E jitter \in JitterDraws :
                     LET r == infer_topology_full(storage, Direct, similarity_id,
                                                  clustering_method, labels, groups, jitter)
                     IN /\ storage' = r.st
                        /\ ret' = Call("infer_topology", args, r)
                        /\ kmeans_labels' = IF clustering_method = "kmeans"
                                            THEN Put(kmeans_labels, key, km)
                                            ELSE kmeans_labels
    /\ UNCHANGED <<task, table, simOut, tp, anomaly_rows, limiter>>

\* _run_pipeline, step 3: the arguments the batch pipeline passes
stage_num_clusters(config) ==
    IF config.num_clusters = "auto" THEN Auto ELSE config.num_clusters

TopologyStage(similarity_id, config) ==
    InferTopologyFull(similarity_id, config.clustering_method, stage_num_clusters(config),
                      DefaultThreshold)

\* BatchConfig as the route fills it in when the request leaves the fields out
DefaultConfig == [clustering_method |-> "hierarchical", num_clusters |-> "auto"]

\* the store after a compute_similarity that produced the matrix m
InitTopo ==
    /\ \E m \in SimMatrices :
          storage = store_similarity(StorageInit, <<"sim", Direct, 1>>,
                        [similarity_id |-> <<"sim", Direct, 1>>, upload_id |-> <<"upl", Direct, 1>>,
                         method |-> "correlation", download_url |-> FALSE,
                         matrix |-> m, cell_ids |-> [i \in 1..TopoCells |-> i]])
    /\ task = EmptyDict
    /\ ret = [op |-> "init", args |-> <<>>, status |-> "ok", value |-> None]
    /\ table = NoSim
    /\ simOut = NoSim
    /\ kmeans_labels = NoSim
    /\ tp = NoSim
    /\ anomaly_rows = NoSim
    /\ limiter = LimiterInit

Thresholds == {DefaultThreshold, 8000}

SimArgs == DOMAIN storage.similarities

NextTopo ==
    \/ \E s \in SimArgs, t \in Thresholds : InferTopologyFull(s, "hierarchical", Auto, t)
    \/ \E s \in SimArgs : InferTopologyFull(s, "hierarchical", 2, DefaultThreshold)
    \/ \E s \in SimArgs, nc \in {Auto, TopoCells + 1} :
          InferTopologyFull(s, "kmeans", nc, DefaultThreshold)
    \/ \E s \in SimArgs : InferTopologyFull(s, "dbscan", Auto, DefaultThreshold)
    \/ \E s \in SimArgs : TopologyStage(s, DefaultConfig)

SpecTopo == InitTopo /\ [][NextTopo]_vars

\* src/ML/step3_propagation_analysis.py: the adaptive cut
\* median(upper triangle) + 0.5 * std(upper triangle) of the distances, as a
\* fraction.  The distances are multiples of Grain; the square root is taken
\* to two more digits.
Grain == 1000

adaptive_threshold(dist) ==
    LET cells == DOMAIN dist
        pairs == {p \in cells \X cells : p[1] < p[2]}
        P == Cardinality(pairs)
        x(p) == dist[p[1]][p[2]] \div Grain
        below(v) == Cardinality({p \in pairs : x(p) < v})
        atmost(v) == Cardinality({p \in pairs : x(p) <= v})
        kth(r) == CHOOSE v \in {x(p) : p \in pairs} : below(v) < r /\ r <= atmost(v)
        median2 == IF P % 2 = 1 THEN 2 * kth((P + 1) \div 2)
                   ELSE kth(P \div 2) + kth(P \div 2 + 1)
        coarse == [i \in cells |-> [j \in cells |-> IF i < j THEN x(<<i, j>>) ELSE 0]]
        squares == [i \in cells |-> [j \in cells |-> coarse[i][j] * coarse[i][j]]]
        sum == PairSum(coarse, cells, cells)
        V == P * PairSum(squares, cells, cells) - sum * sum
    IN [num |-> Grain * P * median2 + 10 * ISqrt(10000 * V), den |-> 2 * P]

\* cluster_labels of the script: fcluster(linkage, t=DISTANCE_THRESHOLD)
step3_cluster_labels(similarity) ==
    LET dist == [i \in DOMAIN similarity |-> [j \in DOMAIN similarity |->
                    10000 - similarity[i][j]]]
    IN fcluster(linkage(dist), adaptive_threshold(dist))

\* the stored topology results, and the sets they are made of
Topologies == storage.topologies

Range(f) == {f[x] : x \in DOMAIN f}

GroupsOf(t, c) == {g \in DOMAIN t.groups : c \in Range(t.groups[g].cells)}

AssignmentsOf(t, c) == {a \in DOMAIN t.cell_assignments : t.cell_assignments[a].cell_id = c}

CellsOf(t) == Range(storage.similarities[t.similarity_id].cell_ids)

\* the partition of the cells that the groups make
Grouping(t) == {Range(t.groups[g].cells) : g \in DOMAIN t.groups}

\* the last call infer_topology returned a result
Inferred == ret.op = "infer_topology" /\ ret.status = "ok"

SmallestCell(g) == CHOOSE c \in Range(g.cells) : \A c2 \in Range(g.cells) : c <= c2

\* C14: the groups of a stored topology result are numbered in ascending
\* order of the smallest cell id they contain.
C14_GroupsNumberedBySmallestCell ==
    \A id \in DOMAIN Topologies :
        LET groups == Topologies[id].groups
        IN \A g \in DOMAIN groups : \A h \in DOMAIN groups :
              groups[g].group_id < groups[h].group_id
                  => SmallestCell(groups[g]) < SmallestCell(groups[h])

\* C15: the confidence of every cell assignment is the average similarity of
\* the group the cell is assigned to (to the two digits kept), and lies in
\* [0,1].
C15_ConfidenceIsGroupAverage ==
    \A id \in DOMAIN Topologies :
        LET t == Topologies[id]
        IN \A a \in DOMAIN t.cell_assignments :
              /\ 0 <= t.cell_assignments[a].confidence
              /\ t.cell_assignments[a].confidence <= 100
              /\ \A g \in DOMAIN t.groups :
                    t.groups[g].group_id = t.cell_assignments[a].group_id
                        => t.cell_assignments[a].confidence
                              = RoundDiv(t.groups[g].avg_similarity, 10)

\* the cell-to-group assignment of a result, without the confidences
AssignmentMap(t) ==
    {<<t.cell_assignments[a].cell_id, t.cell_assignments[a].group_id>> :
        a \in DOMAIN t.cell_assignments}

GroupMembers(t) == [g \in DOMAIN t.groups |-> <<t.groups[g].group_id, t.groups[g].cells>>]

C17_AutoCutsAtAdaptiveThreshold ==
    (/\ Inferred
     /\ ret.args[2] = "hierarchical"
     /\ ret.args[3] = Auto
     /\ ret.args[4] = DefaultThreshold)
        => LET t == Topologies[ret.value]
               sim == storage.similarities[t.similarity_id]
               labels == step3_cluster_labels(sim.matrix)
           IN Grouping(t) =
                 {{sim.cell_ids[i] : i \in {x \in DOMAIN labels : labels[x] = l}} :
                     l \in Range(labels)}

----------------------------------------------------------------------------
(* The anomaly detector, src/ML/step2_detect_anomalies.py *)

DetCells  == 2       \* cells in the throughput file
SeriesLen == 100     \* slots of a cell with a full history

WINDOW == 200
MIN_PERIODS == 50

\* Z_THRESHOLD = -3.5, as the fraction ZNum / ZDen
ZNum == -7
ZDen == 2

\* 1 / 1e-6: the z-score is (x - median) / (mad + 1e-6)
Micro == 1000000

Abs(v) == IF v < 0 THEN 0 - v ELSE v

\* the non-NaN observations of the window that ends at slot i
Window(x, i) == {j \in DOMAIN x : j <= i /\ j > i - WINDOW /\ x[j] # NaN}

\* the k-th smallest of the values x[j], j in J
Kth(x, J, k) ==
    CHOOSE v \in {x[j] : j \in J} :
        /\ Cardinality({j \in J : x[j] < v}) < k
        /\ k <= Cardinality({j \in J : x[j] <= v})

\* the median of the values x[j], j in J: the mean of the two middle values
\* when their number is even (throughput is a multiple of 4 units in this
\* model, so that medians and deviations stay integers)
median(x, J) ==
    LET n == Cardinality(J)
    IN IF n % 2 = 1 THEN Kth(x, J, (n + 1) \div 2)
       ELSE (Kth(x, J, n \div 2) + Kth(x, J, n \div 2 + 1)) \div 2

\* a DataFrame column: the values by row, each computed once
SeriesOf(f) == SubSeq(f, 1, Len(f))

\* Series.rolling(WINDOW, min_periods=50).median()
rolling_median(x) ==
    SeriesOf([i \in DOMAIN x |->
                LET J == Window(x, i)
                IN IF Cardinality(J) < MIN_PERIODS THEN NaN ELSE median(x, J)])

\* (throughput_slot - rolling_median).abs()
abs_deviation(x, med) ==
    SeriesOf([i \in DOMAIN x |-> IF med[i] = NaN THEN NaN ELSE Abs(x[i] - med[i])])

\* the robust z-score (x - median) / (mad + 1e-6), as the fraction num / den
z_score(x, med, mad) ==
    [i \in DOMAIN x |->
        IF med[i] = NaN \/ mad[i] = NaN THEN [nan |-> TRUE, num |-> 0, den |-> 1]
        ELSE [nan |-> FALSE, num |-> (x[i] - med[i]) * Micro, den |-> mad[i] * Micro + 1]]

\* (z_score < Z_THRESHOLD).astype(int): a comparison with NaN is False
anomaly(z) == IF ~z.nan /\ ZDen * z.num < ZNum * z.den THEN 1 ELSE 0

Zero == [nan |-> FALSE, num |-> 0, den |-> 1]
One == [nan |-> FALSE, num |-> 1, den |-> 1]

\* (np.abs(z_score) / abs(Z_THRESHOLD)).clip(0.0, 1.0), as a fraction; NaN stays NaN
clipped_ratio(z) ==
    IF z.nan THEN z
    ELSE IF ZDen * Abs(z.num) >= Abs(ZNum) * z.den THEN One
    ELSE IF z.num = 0 THEN Zero
    ELSE [nan |-> FALSE, num |-> ZDen * Abs(z.num), den |-> Abs(ZNum) * z.den]

\* the confidence column without the "no anomaly -> no confidence" line
confidence_unmasked(z) == clipped_ratio(z)

\* the confidence column: lines 58-63
confidence(z) == IF anomaly(z) = 0 THEN Zero ELSE clipped_ratio(z)

\* the z-scores of one cell's series
cell_z_score(x) ==
    LET med == rolling_median(x)
        mad == rolling_median(abs_deviation(x, med))
    IN z_score(x, med, mad)

\* one iteration of the loop over tp.groupby("cell_id"): the rows of the cell
detect_cell(cell_id, x) ==
    LET z == cell_z_score(x)
    IN [i \in DOMAIN x |->
           [slot_id |-> i, cell_id |-> cell_id,
            anomaly |-> anomaly(z[i]), confidence |-> confidence(z[i])]]

\* a throughput history: SeriesLen - 2 slots of a baseline, steady or
\* alternating around 40, then the two slots a and b
Baseline(kind, j) == IF kind = "steady" THEN 40 ELSE IF j % 2 = 1 THEN 36 ELSE 44

History(kind, a, b) ==
    [j \in 1..SeriesLen |->
        IF j = SeriesLen - 1 THEN a ELSE IF j = SeriesLen THEN b ELSE Baseline(kind, j)]

SeriesSamples ==
    {History(kind, t[1], t[2]) :
        kind \in {"steady", "alternating"}, t \in {<<20, 44>>, <<0, 36>>, <<28, 40>>}}
    \cup {<<40, 0, 40>>}

\* the file read and sorted by cell and slot, before the loop
InitDetect ==
    /\ storage = StorageInit
    /\ task = EmptyDict
    /\ ret = [op |-> "init", args |-> <<>>, status |-> "ok", value |-> None]
    /\ table = NoSim
    /\ simOut = NoSim
    /\ kmeans_labels = NoSim
    /\ tp \in [1..DetCells -> SeriesSamples]
    /\ anomaly_rows = <<>>
    /\ limiter = LimiterInit

\* the next iteration of the loop: groupby yields the cells in ascending order
DetectCell ==
    /\ Len(anomaly_rows) < DetCells
    /\ LET cell_id == Len(anomaly_rows) + 1
       IN anomaly_rows' = Append(anomaly_rows, detect_cell(cell_id, tp[cell_id]))
    /\ UNCHANGED <<storage, task, ret, table, simOut, kmeans_labels, tp, limiter>>

NextDetect == DetectCell

SpecDetect == InitDetect /\ [][NextDetect]_vars

\* pd.concat(anomaly_rows): every row produced so far
AnomalyRecords == UNION {Range(anomaly_rows[c]) : c \in DOMAIN anomaly_rows}

\* the z-score behind a produced row, recomputed from the input
ZOf(r) == cell_z_score(tp[r.cell_id])[r.slot_id]

\* C18: every row the detector produces has a confidence in [0,1], and the
\* confidence is exactly 0 whenever the anomaly flag is 0, also in the
\* warm-up slots where the rolling baseline is undefined.
C18_ConfidenceZeroUnlessFlagged ==
    \A r \in AnomalyRecords :
        /\ ~r.confidence.nan
        /\ 0 <= r.confidence.num /\ r.confidence.num <= r.confidence.den
        /\ r.anomaly \in {0, 1}
        /\ r.anomaly = 0 => r.confidence.num = 0

C18_Witness ==
    /\ Len(anomaly_rows) = DetCells
    /\ \E r \in AnomalyRecords : r.anomaly = 0 /\ r.slot_id < MIN_PERIODS
    /\ \E r \in AnomalyRecords :
          /\ r.anomaly = 0
          /\ clipped_ratio(ZOf(r)).num > 0
    /\ \E r \in AnomalyRecords : r.anomaly = 1 /\ r.confidence = One

\* C19: a flagged slot whose z-score lies strictly between 2*T and T has a
\* confidence strictly between 0 and 1, namely (|z| - |T|) / |T|; at or below
\* 2*T the confidence is 1.
C19_ConfidenceLinearPastThreshold ==
    \A r \in AnomalyRecords :
        r.anomaly = 1 =>
            LET z == ZOf(r)
            IN IF ZDen * z.num > 2 * ZNum * z.den
               THEN /\ 0 < r.confidence.num
                    /\ r.confidence.num < r.confidence.den
                    /\ r.confidence.num * (Abs(ZNum) * z.den)
                          = (ZDen * Abs(z.num) - Abs(ZNum) * z.den) * r.confidence.den
               ELSE r.confidence.num = r.confidence.den

----------------------------------------------------------------------------
(* Anomaly detection of the backend on a stored topology,                  *)
(* src/backend/app/services/anomaly_service.py.  Similarities and the      *)
(* threshold are in units of 1e-4, confidence_score in units of 1e-3 and   *)
(* deviation_percentage in units of 0.1.  The statistics block of the      *)
(* stored result is left out.                                              *)

MaxAnom == 2         \* detect_anomalies calls that store a result

\* threshold: float = 0.5, also what the batch pipeline passes by default
AnomalyThreshold == 5000

\* list.index: the first position of c in cell_ids
IndexOf(cell_ids, c) == CHOOSE i \in DOMAIN cell_ids : cell_ids[i] = c /\ \A j \in 1..(i - 1) : cell_ids[j] # c

\* _get_severity
get_severity(sum, cnt, threshold) ==
    IF sum >= threshold * cnt THEN "none"
    ELSE IF 10 * sum >= 7 * threshold * cnt THEN "low"
    ELSE IF 2 * sum >= threshold * cnt THEN "medium"
    ELSE "high"

\* _get_explanation, by the name of the sentence it returns
get_explanation(sum, cnt, is_anomaly) ==
    IF ~is_anomaly THEN "aligns"
    ELSE IF sum < 3000 * cnt THEN "significantly lower"
    ELSE IF sum < 5000 * cnt THEN "notable deviation"
    ELSE "minor inconsistency"

\* lines 64-88: the result of one cell of a group; the confidence is the mean
\* sum / cnt of its similarities to the other cells of the group, 1.0 alone
cell_result(matrix, cell_ids, group, cell, threshold) ==
    LET group_indices == {IndexOf(cell_ids, c) : c \in Range(group.cells) \cap Range(cell_ids)}
        cell_idx == IndexOf(cell_ids, cell)
        other_indices == group_indices \ {cell_idx}
        alone == Cardinality(group_indices) <= 1
        row == [i \in DOMAIN cell_ids |-> IF i \in other_indices THEN matrix[cell_idx][i] ELSE 0]
        sum == IF alone THEN 10000 ELSE SumTo(row, Len(cell_ids))
        cnt == IF alone THEN 1 ELSE Cardinality(other_indices)
        is_anomaly == sum < threshold * cnt
    IN [cell_id |-> cell, group_id |-> group.group_id,
        confidence_score |-> RoundDiv(sum, 10 * cnt),
        is_anomaly |-> is_anomaly,
        anomaly_type |-> IF is_anomaly THEN "low_correlation" ELSE "None",
        severity |-> get_severity(sum, cnt, threshold),
        deviation_percentage |-> IF is_anomaly THEN RoundDiv(10000 * cnt - sum, 10 * cnt)
                                 ELSE Absent,
        explanation |-> get_explanation(sum, cnt, is_anomaly)]

\* the loops of lines 56-93: the cell results, group by group
RECURSIVE cell_results(_, _, _, _)
cell_results(matrix, cell_ids, groups, threshold) ==
    IF groups = <<>> THEN <<>>
    ELSE LET group == Head(groups)
             known(c) == c \in Range(cell_ids)
             cells == SelectSeq(group.cells, known)
         IN [k \in DOMAIN cells |-> cell_result(matrix, cell_ids, group, cells[k], threshold)]
               \o cell_results(matrix, cell_ids, Tail(groups), threshold)

\* AnomalyService.detect_anomalies, with the content of the stored result
detect_anomalies_full(st, who, topology_id, similarity_id, threshold) ==
    IF ~Found(st.topologies, topology_id) THEN Raised(st, "Topology not found")
    ELSE IF ~Found(st.similarities, similarity_id) THEN Raised(st, "Similarity matrix not found")
    ELSE LET similarity == st.similarities[similarity_id]
             all == cell_results(similarity.matrix, similarity.cell_ids,
                                 st.topologies[topology_id].groups, threshold)
             flagged(r) == r.is_anomaly
             normal(r) == ~r.is_anomaly
             anomalies == SelectSeq(all, flagged)
             id == generate_id("anom", who, st.anomalies)
         IN Returned(store_anomaly(st, id,
                [analysis_id |-> id, topology_id |-> topology_id,
                 similarity_id |-> similarity_id, threshold |-> threshold,
                 total_cells_analyzed |-> Len(all),
                 anomalies_detected |-> Len(anomalies),
                 anomalies |-> anomalies,
                 normal_cells |-> SelectSeq(all, normal)]), id)

DetectAnomaliesFull(topology_id, similarity_id, threshold) ==
    /\ Cardinality(DOMAIN storage.anomalies) < MaxAnom
    /\ LET r == detect_anomalies_full(storage, Direct, topology_id, similarity_id, threshold)
       IN /\ storage' = r.st
          /\ ret' = Call("detect_anomalies", <<topology_id, similarity_id, threshold>>, r)
    /\ UNCHANGED <<task, table, simOut, kmeans_labels, tp, anomaly_rows, limiter>>

\* the topology ids a caller may pass: the stored ones and one that is not
TopoArgs == DOMAIN storage.topologies \cup {<<"topo", Direct, MaxTopo + 1>>}

NextAnom ==
    \/ \E s \in SimArgs, t \in Thresholds : InferTopologyFull(s, "hierarchical", Auto, t)
    \/ \E t \in TopoArgs, s \in SimArgs : DetectAnomaliesFull(t, s, AnomalyThreshold)

SpecAnom == InitTopo /\ [][NextAnom]_vars

\* the stored anomaly results, and what one of them says about a cell
Anomalies == storage.anomalies

Verdicts(a, c) ==
    {<<r.is_anomaly, r.confidence_score>> :
        r \in {x \in Range(a.anomalies) \cup Range(a.normal_cells) : x.cell_id = c}}

\* C20: a cell's anomaly result depends on the input records alone: two
\* stored anomaly results on the same similarity matrix give every cell the
\* same anomaly flag and the same confidence, whatever topology they used.
C20_VerdictIndependentOfTopology ==
    \A a \in DOMAIN Anomalies, b \in DOMAIN Anomalies :
        Anomalies[a].similarity_id = Anomalies[b].similarity_id =>
            \A c \in Range(storage.similarities[Anomalies[a].similarity_id].cell_ids) :
                Verdicts(Anomalies[a], c) = Verdicts(Anomalies[b], c)

----------------------------------------------------------------------------
(* Propagation analysis, src/backend/app/services/propagation_service.py.  *)
(* The uploaded records are a table: per cell, the loss_event of each slot *)
(* or Absent.  A group signal is kept as MeanScale times the mean, so that *)
(* it is an integer; correlations do not depend on that factor.            *)
(* Correlations are compared exactly, as fractions n2 / d of their square. *)
(* min_correlation is in units of 1e-2, correlation in units of 1e-3,      *)
(* delay_ms in units of 0.1 ms.  The timestamp of an event is left out.    *)

PropCells == 3       \* cells in the uploaded data
PropSlots == 11      \* slots in the uploaded data
MaxProp == 1         \* analyze_propagation calls that store a result

MeanScale == 2

MinSignal == 10

\* groupby("slot_id")[value_col].mean() over the rows of the group's cells
group_signal(data, group) ==
    LET cells == {c \in Range(group.cells) : c \in DOMAIN data}
        has(sl) == {c \in cells : data[c][sl] # Absent}
        slots == SortedSeq({sl \in 1..PropSlots : has(sl) # {}})
        total(sl) == SumTo([c \in 1..PropCells |-> IF c \in has(sl) THEN data[c][sl] ELSE 0],
                           PropCells)
    IN [k \in 1..Len(slots) |-> (MeanScale * total(slots[k])) \div Cardinality(has(slots[k]))]

\* _compute_group_signals: the signal of each group, in the order of the list
compute_group_signals(data, groups) == [g \in DOMAIN groups |-> group_signal(data, groups[g])]

\* np.corrcoef(x, y)[0, 1] for slices of equal length, NaN replaced by 0:
\* the square of the coefficient as n2 / d, and its sign
corrcoef(x, y) ==
    LET n == Len(x)
        num == n * Dot(x, y) - SumTo(x, n) * SumTo(y, n)
        dx == n * Dot(x, x) - SumTo(x, n) * SumTo(x, n)
        dy == n * Dot(y, y) - SumTo(y, n) * SumTo(y, n)
    IN IF dx = 0 \/ dy = 0 THEN [n2 |-> 0, d |-> 1, neg |-> FALSE]
       ELSE [n2 |-> num * num, d |-> dx * dy, neg |-> num < 0]

\* the two slices correlated at a lag: s1[lag:], s2[:n-lag] or s1[:n+lag], s2[-lag:]
Slices(s1, s2, lag) ==
    LET n == Len(s1)
    IN IF lag >= 0
       THEN <<SubSeq(s1, lag + 1, n), SubSeq(s2, 1, Min(n - lag, Len(s2)))>>
       ELSE <<SubSeq(s1, 1, n + lag), SubSeq(s2, 1 - lag, Len(s2))>>

\* list(range(-min(max_lag, n//2), min(max_lag, n//2) + 1))
Lags(s1, max_lag) ==
    LET m == Min(max_lag, Len(s1) \div 2)
    IN [k \in 1..(2 * m + 1) |-> k - m - 1]

\* the correlation of the two signals at one lag
corr_at(s1, s2, lag) == corrcoef(Slices(s1, s2, lag)[1], Slices(s1, s2, lag)[2])

\* a <= b for two squared correlations
Leq2(a, b) == a.n2 * b.d <= b.n2 * a.d

\* np.argmax(np.abs(corrs)): the first position of the largest magnitude
argmax_abs(corrs) ==
    CHOOSE k \in DOMAIN corrs :
        /\ \A l \in DOMAIN corrs : Leq2(corrs[l], corrs[k])
        /\ \A l \in 1..(k - 1) : ~Leq2(corrs[k], corrs[l])

\* _cross_correlate.  np.corrcoef raises a ValueError on slices of different
\* lengths.
cross_correlate(s1, s2, max_lag) ==
    LET lags == Lags(s1, max_lag)
    IN IF \E k \in DOMAIN lags :
             Len(Slices(s1, s2, lags[k])[1]) # Len(Slices(s1, s2, lags[k])[2])
       THEN [raised |-> TRUE, corr |-> [n2 |-> 0, d |-> 1, neg |-> FALSE], lag |-> 0]
       ELSE LET corrs == SeriesOf([k \in DOMAIN lags |-> corr_at(s1, s2, lags[k])])
                best_idx == argmax_abs(corrs)
            IN [raised |-> FALSE, corr |-> corrs[best_idx], lag |-> lags[best_idx]]

\* a comparison that every correlation passes
AtLeast_always(corr, min_corr) == corr.d > 0

\* correlation >= min_corr, min_corr in units of 1e-2
AtLeast(corr, min_corr) == corr.n2 * 10000 >= min_corr * min_corr * corr.d

\* round(correlation, 3) in units of 1e-3
Round3(corr) == (ISqrt(Scale8(corr.n2, corr.d)) + 5) \div 10

\* the pairs (i, j), i < j, of positions in a list of k groups, in loop order
PairSeq(k) ==
    LET codes == SortedSeq({q[1] * (k + 1) + q[2] :
                               q \in {r \in (1..k) \X (1..k) : r[1] < r[2]}})
    IN [p \in 1..Len(codes) |-> <<codes[p] \div (k + 1), codes[p] % (k + 1)>>]

\* the event appended for a pair whose correlation passed, lines 144-154
propagation_event(counter, source_id, target_id, corr, lag) ==
    [event_id |-> counter,
     source_group |-> IF lag > 0 THEN source_id ELSE target_id,
     target_group |-> IF lag > 0 THEN target_id ELSE source_id,
     delay_ms |-> Abs(lag),
     correlation |-> Round3(corr),
     direction |-> IF lag > 0 THEN "downstream" ELSE "upstream",
     confidence |-> Min(95, (ISqrt(Scale8(corr.n2, corr.d)) + 1050) \div 100)]

\* the double loop of _detect_propagation_events from the p-th pair on
RECURSIVE detect_from(_, _, _, _, _, _)
detect_from(signals, group_ids, max_lag, min_corr, p, events) ==
    LET pairs == PairSeq(Len(group_ids))
    IN IF p > Len(pairs) THEN [raised |-> FALSE, events |-> events]
       ELSE LET source_signal == signals[pairs[p][1]]
                target_signal == signals[pairs[p][2]]
            IN IF Len(source_signal) < MinSignal \/ Len(target_signal) < MinSignal
               THEN detect_from(signals, group_ids, max_lag, min_corr, p + 1, events)
               ELSE LET c == cross_correlate(source_signal, target_signal, max_lag)
                    IN IF c.raised THEN [raised |-> TRUE, events |-> events]
                       ELSE IF AtLeast(c.corr, min_corr)
                       THEN detect_from(signals, group_ids, max_lag, min_corr, p + 1,
                                Append(events,
                                    propagation_event(Len(events) + 1, group_ids[pairs[p][1]],
                                                      group_ids[pairs[p][2]], c.corr, c.lag)))
                       ELSE detect_from(signals, group_ids, max_lag, min_corr, p + 1, events)

\* _detect_propagation_events
detect_propagation_events(signals, groups, max_lag, min_corr) ==
    detect_from(signals, [g \in DOMAIN groups |-> groups[g].group_id], max_lag, min_corr, 1, <<>>)

\* adjacency[current][0]: the first event detected that leaves the group
first_hop(events, current) ==
    events[FirstIndex([i \in DOMAIN events |-> events[i].source_group = current])]

\* the while loop of lines 218-227
RECURSIVE walk(_, _, _, _, _, _)
walk(events, current, visited, path, total_delay, strengths) ==
    IF (\E i \in DOMAIN events : events[i].source_group = current) /\ current \notin visited
    THEN LET event == first_hop(events, current)
         IN walk(events, event.target_group, visited \cup {current},
                 Append(path, event.target_group), total_delay + event.delay_ms,
                 Append(strengths, event.correlation))
    ELSE [sequence |-> path, total_delay_ms |-> total_delay, strengths |-> strengths]

\* the keys of adjacency in insertion order: the sources by first appearance
RECURSIVE starts(_)
starts(events) ==
    IF events = <<>> THEN <<>>
    ELSE LET before == starts(SubSeq(events, 1, Len(events) - 1))
             source == events[Len(events)].source_group
         IN IF source \in Range(before) THEN before ELSE Append(before, source)

\* _build_propagation_paths
build_propagation_paths(events) ==
    IF Len(events) < 2 THEN <<>>
    ELSE LET from == starts(events)
             walked == [k \in DOMAIN from |-> walk(events, from[k], {}, <<from[k]>>, 0, <<>>)]
             long(w) == Len(w.sequence) > 2
             kept == SelectSeq(walked, long)
         IN [k \in DOMAIN kept |->
               [path_id |-> k, sequence |-> kept[k].sequence,
                total_delay_ms |-> kept[k].total_delay_ms,
                strength |-> RoundDiv(SumTo(kept[k].strengths, Len(kept[k].strengths)),
                                      Len(kept[k].strengths)),
                type |-> "cascading_congestion"]]

\* the loop of lines 249-255 over the first n events
RECURSIVE node_types(_, _)
node_types(events, n) ==
    IF n = 0 THEN EmptyDict
    ELSE LET before == node_types(events, n - 1)
             event == events[n]
             seen == IF event.source_group \in DOMAIN before THEN before
                     ELSE Put(before, event.source_group, "source")
         IN IF event.target_group \notin DOMAIN seen
            THEN Put(seen, event.target_group, "target")
            ELSE IF seen[event.target_group] = "source"
            THEN Put(seen, event.target_group, "intermediate")
            ELSE seen

\* _build_network_graph; level[g] is round(0.5 + np.random.random() * 0.4, 2)
build_network_graph(events, groups, level) ==
    LET types == node_types(events, Len(events))
    IN [nodes |-> [g \in DOMAIN groups |->
                     [id |-> groups[g].group_id,
                      type |-> IF groups[g].group_id \in DOMAIN types
                               THEN types[groups[g].group_id] ELSE "isolated",
                      congestion_level |-> level[g]]],
        edges |-> [i \in DOMAIN events |->
                     [source |-> events[i].source_group, target |-> events[i].target_group,
                      delay_ms |-> events[i].delay_ms, strength |-> events[i].correlation]]]

\* the slots that have a record: len(df["slot_id"].unique())
time_window_analyzed(data) ==
    Cardinality({sl \in 1..PropSlots : \E c \in DOMAIN data : data[c][sl] # Absent})

\* PropagationService.analyze_propagation, with the content of the stored result
analyze_propagation_full(st, who, topology_id, upload_id, max_lag, min_corr, level) ==
    IF ~Found(st.topologies, topology_id) THEN Raised(st, "Topology not found")
    ELSE IF ~Found(st.uploads, upload_id) THEN Raised(st, "Upload not found")
    ELSE LET groups == st.topologies[topology_id].groups
             data == st.uploads[upload_id].data
             detected == detect_propagation_events(compute_group_signals(data, groups),
                                                   groups, max_lag, min_corr)
             id == generate_id("prop", who, st.propagations)
         IN IF detected.raised THEN Raised(st, "ValueError: array dimensions must match")
            ELSE Returned(store_propagation(st, id,
                    [propagation_id |-> id, topology_id |-> topology_id,
                     upload_id |-> upload_id,
                     time_window_analyzed_sec |-> time_window_analyzed(data),
                     events |-> detected.events,
                     propagation_paths |-> build_propagation_paths(detected.events),
                     network_graph |-> build_network_graph(detected.events, groups, level)]), id)

\* cross_correlation_lag: int = 50, min_correlation: float = 0.6
DefaultLag == 50
DefaultMinCorr == 60

\* the draws of np.random.random for congestion_level, one per group, as the
\* rounded level in units of 1e-2: the same for every group, or alternating
LevelDraws ==
    {[g \in 1..PropCells |-> 50], [g \in 1..PropCells |-> IF g % 2 = 1 THEN 90 ELSE 50]}

AnalyzePropagationFull(topology_id, upload_id, max_lag, min_corr) ==
    /\ Cardinality(DOMAIN storage.propagations) < MaxProp
    /\ \E level \in LevelDraws :
          LET r == analyze_propagation_full(storage, Direct, topology_id, upload_id,
                                            max_lag, min_corr, level)
          IN /\ storage' = r.st
             /\ ret' = Call("analyze_propagation",
                            <<topology_id, upload_id, max_lag, min_corr>>, r)
    /\ UNCHANGED <<task, table, simOut, kmeans_labels, tp, anomaly_rows, limiter>>

\* a cell's loss events over the slots: the pattern, then no loss
Padded(pattern) ==
    [sl \in 1..PropSlots |-> IF sl <= Len(pattern) THEN pattern[sl] ELSE 0]

\* bursts of loss, the first one again one slot later, a cell that loses
\* almost always, a cell with two losses, a cell without loss, and cells
\* whose records start at the second and at the fourth slot
SignalSamples ==
    {Padded(<<1, 1, 0, 0, 1, 0, 0, 0, 0, 1, 1>>),
     Padded(<<0, 1, 1, 0, 0, 1, 0, 0, 0, 0, 1>>),
     Padded(<<1, 0, 1, 1, 1, 1, 1, 1, 1, 1, 0>>),
     Padded(<<0, 0, 0, 0, 1, 0, 1, 0, 0, 0, 0>>),
     Padded(<<0>>),
     Padded(<<Absent, 1, 0, 0, 1, 0, 0, 0, 1, 1, 0>>),
     Padded(<<Absent, Absent, Absent, 0, 1, 0, 0, 1, 1, 0, 1>>)}

\* a topology of one group per cell, and one with the first two cells together
SingleGroups ==
    [g \in 1..PropCells |-> [group_id |-> g, cells |-> <<g>>, cell_count |-> 1]]

PairedGroups ==
    [g \in 1..(PropCells - 1) |->
        IF g = 1 THEN [group_id |-> 1, cells |-> <<1, 2>>, cell_count |-> 2]
        ELSE [group_id |-> g, cells |-> <<g + 1>>, cell_count |-> 1]]

\* the store after an upload_data and two infer_topology calls
InitProp ==
    /\ \E data \in [1..PropCells -> SignalSamples] :
          storage =
             store_topology(
                store_topology(
                   store_upload(StorageInit, <<"upl", Direct, 1>>,
                      [upload_id |-> <<"upl", Direct, 1>>, data_type |-> "loss_events",
                       records_count |-> PropCells * PropSlots, status |-> "completed",
                       data |-> data]),
                   <<"topo", Direct, 1>>,
                   [topology_id |-> <<"topo", Direct, 1>>, groups |-> SingleGroups]),
                <<"topo", Direct, 2>>,
                [topology_id |-> <<"topo", Direct, 2>>, groups |-> PairedGroups])
    /\ task = EmptyDict
    /\ ret = [op |-> "init", args |-> <<>>, status |-> "ok", value |-> None]
    /\ table = NoSim
    /\ simOut = NoSim
    /\ kmeans_labels = NoSim
    /\ tp = NoSim
    /\ anomaly_rows = NoSim
    /\ limiter = LimiterInit

NextProp ==
    \E t \in DOMAIN storage.topologies, u \in DOMAIN storage.uploads,
       min_corr \in {DefaultMinCorr, 90} :
        AnalyzePropagationFull(t, u, DefaultLag, min_corr)

SpecProp == InitProp /\ [][NextProp]_vars

\* the last call of analyze_propagation returned a result: the result, the
\* groups it was computed for and their signals
Analysed == ret.op = "analyze_propagation" /\ ret.status = "ok"

LastPropagation == storage.propagations[ret.value]

LastGroups == storage.topologies[ret.args[1]].groups

LastSignals == compute_group_signals(storage.uploads[ret.args[2]].data, LastGroups)

\* the position of a group in the list of the topology
GroupIndex(gid) == CHOOSE g \in DOMAIN LastGroups : LastGroups[g].group_id = gid

\* some lag gives the two signals a correlation of magnitude min_corr or more
Reaches(A, B, max_lag, min_corr) ==
    \E k \in DOMAIN Lags(A, max_lag) :
        LET c == corr_at(A, B, Lags(A, max_lag)[k])
        IN c.n2 * 10000 >= min_corr * min_corr * c.d

EventsOn(P, a, b) ==
    {i \in DOMAIN P.events :
        {P.events[i].source_group, P.events[i].target_group} = {a, b}}

\* C21: every event of a propagation result connects two distinct groups
\* whose signals both have at least 10 slots and whose correlation reaches
\* min_correlation in magnitude; an unordered pair of groups has at most one
\* event, and none when its best correlation is below min_correlation.
C21_EventsOnlyForCorrelatedPairs ==
    Analysed =>
        /\ \A i \in DOMAIN LastPropagation.events :
              LET e == LastPropagation.events[i]
                  A == LastSignals[GroupIndex(e.source_group)]
                  B == LastSignals[GroupIndex(e.target_group)]
              IN /\ e.source_group # e.target_group
                 /\ Len(A) >= 10 /\ Len(B) >= 10
                 /\ Reaches(A, B, ret.args[3], ret.args[4])
                 /\ e.correlation >= 10 * ret.args[4]
        /\ \A a \in DOMAIN LastGroups, b \in DOMAIN LastGroups :
              LET on == EventsOn(LastPropagation, LastGroups[a].group_id, LastGroups[b].group_id)
              IN /\ Cardinality(on) <= 1
                 /\ (a < b /\ Len(LastSignals[a]) >= 10 /\ Len(LastSignals[b]) >= 10
                       /\ ~Reaches(LastSignals[a], LastSignals[b], ret.args[3], ret.args[4]))
                      => on = {}

C21_Witness ==
    /\ Analysed
    /\ LastPropagation.events # <<>>
    /\ \E a \in DOMAIN LastGroups, b \in DOMAIN LastGroups :
          /\ a < b /\ Len(LastSignals[a]) >= 10 /\ Len(LastSignals[b]) >= 10
          /\ ~Reaches(LastSignals[a], LastSignals[b], ret.args[3], ret.args[4])

\* B is A delayed by k slots: what A shows at slot t, B shows at slot t + k
DelayedBy(A, B, k) ==
    /\ Len(A) = Len(B)
    /\ \A t \in 1..(Len(A) - k) : B[t + k] = A[t]

\* C22: when the signal of group B is the signal of group A delayed by k > 0
\* slots (and by no other shift within the lag range) and the pair has an
\* event, the event has source_group A, target_group B and delay_ms k times
\* the slot duration, whichever group comes first in the list.
C22_SourceIsLeadingGroup ==
    Analysed =>
        \A a \in DOMAIN LastGroups, b \in DOMAIN LastGroups, k \in 1..(PropSlots \div 2) :
            LET A == LastSignals[a]
                B == LastSignals[b]
                on == EventsOn(LastPropagation, LastGroups[a].group_id, LastGroups[b].group_id)
            IN (/\ a # b
                /\ DelayedBy(A, B, k)
                /\ \A j \in 0..(PropSlots \div 2) :
                      /\ j # k => ~DelayedBy(A, B, j)
                      /\ ~DelayedBy(B, A, j)
                /\ on # {})
                  => \A i \in on :
                        /\ LastPropagation.events[i].source_group = LastGroups[a].group_id
                        /\ LastPropagation.events[i].target_group = LastGroups[b].group_id
                        /\ LastPropagation.events[i].delay_ms = k

\* the events that leave a group
Outgoing(P, g) == {i \in DOMAIN P.events : P.events[i].source_group = g}

\* C23: in every reported path, a hop that leaves a group with more than one
\* outgoing event goes along an outgoing event of the highest correlation.
C23_PathFollowsStrongestHop ==
    Analysed =>
        \A p \in DOMAIN LastPropagation.propagation_paths :
            LET path == LastPropagation.propagation_paths[p].sequence
            IN \A h \in 1..(Len(path) - 1) :
                  LET out == Outgoing(LastPropagation, path[h])
                  IN Cardinality(out) > 1 =>
                        \E i \in out :
                           /\ LastPropagation.events[i].target_group = path[h + 1]
                           /\ \A k \in out : LastPropagation.events[k].correlation
                                                <= LastPropagation.events[i].correlation

\* C24: no group appears more than once in the sequence of a reported path.
C24_NoGroupTwiceInPath ==
    Analysed =>
        \A p \in DOMAIN LastPropagation.propagation_paths :
            LET path == LastPropagation.propagation_paths[p].sequence
            IN Cardinality(Range(path)) = Len(path)

\* C25: in the network graph a group is typed source iff it is the source of
\* some event and the target of none, target iff it is the target of some
\* event and the source of none, intermediate iff it is both.
C25_NodeTypesByRole ==
    Analysed =>
        \A n \in DOMAIN LastPropagation.network_graph.nodes :
            LET node == LastPropagation.network_graph.nodes[n]
                src == \E i \in DOMAIN LastPropagation.events :
                          LastPropagation.events[i].source_group = node.id
                tgt == \E i \in DOMAIN LastPropagation.events :
                          LastPropagation.events[i].target_group = node.id
            IN /\ node.type = "source" <=> (src /\ ~tgt)
               /\ node.type = "target" <=> (tgt /\ ~src)
               /\ node.type = "intermediate" <=> (src /\ tgt)

\* C26: analyze_propagation on a stored topology and a stored upload is never
\* aborted by degenerate group signals (zero variance, fewer than 10 slots,
\* differing slot coverage): it returns and its result is stored.
C26_DegenerateSignalsDoNotAbort ==
    (ret.op = "analyze_propagation"
        /\ ret.args[1] \in DOMAIN storage.topologies
        /\ ret.args[2] \in DOMAIN storage.uploads)
      => /\ ret.status = "ok"
         /\ ret.value \in DOMAIN storage.propagations

\* C27: for two signals A and B the correlation of (A, B) at lag L is that of
\* (B, A) at lag -L, and _cross_correlate(B, A) returns the correlation of
\* _cross_correlate(A, B) with the negated lag.
C27_CrossCorrelationSymmetric ==
    \A u \in DOMAIN storage.uploads :
        LET signals == compute_group_signals(storage.uploads[u].data, SingleGroups)
        IN \A a \in DOMAIN signals, b \in DOMAIN signals :
              LET ab == cross_correlate(signals[a], signals[b], DefaultLag)
                  ba == cross_correlate(signals[b], signals[a], DefaultLag)
              IN (~ab.raised /\ ~ba.raised) =>
                    /\ \A k \in DOMAIN Lags(signals[a], DefaultLag) :
                          LET L == Lags(signals[a], DefaultLag)[k]
                          IN corr_at(signals[a], signals[b], L)
                                = corr_at(signals[b], signals[a], 0 - L)
                    /\ ba.corr = ab.corr
                    /\ ba.lag = 0 - ab.lag

----------------------------------------------------------------------------
(* The rate limiter under concurrent callers *)

NextLimit ==
    \/ Tick
    \/ \E th \in Threads, key \in Keys : BeginCheck(th, key)
    \/ \E th \in Threads : GetCount(th)
    \/ \E th \in Threads : Decide(th)

SpecLimit == Init /\ [][NextLimit]_vars

\* the allowed requests of a key recorded within the window that ends at t
AllowedWithin(key, t) ==
    {i \in DOMAIN limiter.allowed :
        /\ limiter.allowed[i].key = key
        /\ limiter.allowed[i].at > t - window_seconds
        /\ limiter.allowed[i].at <= t}

\* C28: for every key, the requests that check_rate_limit allowed within a
\* window of window_seconds are never more than max_requests, also when
\* several threads call it for the same key at once.
C28_AllowedWithinLimit ==
    \A key \in Keys, t \in 0..MaxTime : Cardinality(AllowedWithin(key, t)) <= max_requests

----------------------------------------------------------------------------
(* The batch record and the active_jobs metric along a pipeline run *)

StatusOf(steps) == [i \in DOMAIN steps |-> steps[i].status]

ProcessingSteps(steps) == {i \in DOMAIN steps : steps[i].status = "processing"}

\* at most one step in progress, the completed steps a prefix of the list, a
\* completed batch with nothing but completed steps
StepsWellOrdered(st, b) ==
    LET steps == st.batches[b].steps
    IN /\ Cardinality(ProcessingSteps(steps)) <= 1
       /\ \A i \in DOMAIN steps : steps[i].status = "completed" =>
             \A j \in 1..(i - 1) : steps[j].status = "completed"
       /\ st.batches[b].status = "completed" =>
             \A i \in DOMAIN steps : steps[i].status = "completed"

StepMoves == {<<"pending", "processing">>, <<"processing", "completed">>,
              <<"processing", "failed">>}

Finished(st, b) == st.batches[b].status \in {"completed", "failed"}

\* C29: in every reachable state of a batch at most one step is processing,
\* the completed steps form a prefix of the step list, and the batch is
\* completed only if every step is completed; in every step of the program a
\* step status either stays or moves pending -> processing, processing ->
\* completed or processing -> failed; and once the batch is completed or
\* failed neither its status nor any of its steps changes again.
C29_StepsAdvanceOneWay ==
    [][/\ \A b \in DOMAIN Batches : StepsWellOrdered(storage, b)
       /\ \A b \in DOMAIN storage'.batches : StepsWellOrdered(storage', b)
       /\ \A b \in DOMAIN Batches :
             LET old == Batches[b].steps
                 new == storage'.batches[b].steps
             IN /\ b \in DOMAIN storage'.batches
                /\ StepNames(new) = StepNames(old)
                /\ \A i \in DOMAIN old :
                      \/ new[i].status = old[i].status
                      \/ <<old[i].status, new[i].status>> \in StepMoves
                /\ Finished(storage, b) =>
                      /\ storage'.batches[b].status = Batches[b].status
                      /\ StatusOf(new) = StatusOf(old)]_vars

C29_Witness ==
    \E b, c \in DOMAIN Batches :
        /\ Batches[b].status = "completed"
        /\ Len(Batches[b].steps) = NumStages
        /\ \A i \in DOMAIN Batches[b].steps : Batches[b].steps[i].status = "completed"
        /\ Batches[c].status = "failed"
        /\ \E i \in DOMAIN Batches[c].steps :
              /\ i > 1
              /\ Batches[c].steps[i].status = "failed"

ProcessingBatches(st) == {b \in DOMAIN st.batches : st.batches[b].status = "processing"}

\* C30: in every reachable state active_jobs is the number of stored batches
\* whose status is processing; a step that stores a batch raises it by one, a
\* step in which a batch becomes completed or failed lowers it by one, and no
\* other step changes it.
C30_ActiveJobsCountsProcessing ==
    [][/\ storage.active_jobs = Cardinality(ProcessingBatches(storage))
       /\ storage'.active_jobs = Cardinality(ProcessingBatches(storage'))
       /\ storage'.active_jobs - storage.active_jobs =
             Cardinality(DOMAIN storage'.batches \ DOMAIN Batches)
               - Cardinality({b \in DOMAIN Batches :
                                 ~Finished(storage, b) /\ Finished(storage', b)})]_vars

C30_Witness ==
    /\ storage.active_jobs = 1
    /\ \E b, c \in DOMAIN Batches :
          /\ Batches[b].status = "processing"
          /\ Finished(storage, c)

====
